---- MODULE Spec2Model ----
(***************************************************************************)
(* A model of the typed-parser combinator engine (src/src/index.ts, and    *)
(* the later revision of the same module kept in src/unnamed/part_003).    *)
(*                                                                         *)
(* A source string is a sequence of one-character strings.  A Parser is a  *)
(* record [kind, arg, ps]: the closure the combinator of that name returns,*)
(* with the arguments it captured.  Invoke(parser, source, context, path)  *)
(* is the call parser(source, context); it returns the value (or Err) and  *)
(* the Context as the call left it.  The Context carries, besides offset   *)
(* and scope, the history of the calls made so far (trace), one entry per  *)
(* parser call, appended when the call returns.                            *)
(***************************************************************************)
EXTENDS Integers, Sequences, FiniteSets, TLC

(***************************************************************************)
(* Bounds of the model.                                                    *)
(***************************************************************************)
MaxLen == 3

Alphabet == <<"a", "b", "1", "2", ",", "!", "\n">>

RECURSIVE SeqsUpTo(_)
SeqsUpTo(n) ==
  IF n = 0 THEN {<<>>}
  ELSE LET shorter == SeqsUpTo(n - 1) IN
       shorter \cup {Append(s, Alphabet[i]) : s \in shorter, i \in 1..Len(Alphabet)}

Sources == SeqsUpTo(MaxLen)

(***************************************************************************)
(* Values.  Every JavaScript value the parsers produce is tagged with its  *)
(* type in field t.                                                        *)
(***************************************************************************)
Null == [t |-> "null"]
Undefined == [t |-> "undefined"]
Str(s) == [t |-> "string", v |-> s]
Num(n) == [t |-> "number", v |-> n]
List(xs) == [t |-> "array", v |-> xs]
\* a thrown exception (not an Err): it unwinds every caller up to run
Exception(message) == [t |-> "exception", message |-> message]

\* the name of the root scope, new Scope(0, null): no string
NullName == Null

\* new Scope(offset, name, parent); the name of withContext is a string
Scope(offset, name, parent) == <<[offset |-> offset, name |-> name]>> \o parent

\* the entries of the arrays that parser objects hold, by the place of the
\* parser object in the grammar; an array that has not been written to is
\* not in it
NoHeap == <<>>

Context ==
  [offset |-> 0, scope |-> Scope(0, NullName, <<>>), trace |-> <<>>,
   heap |-> NoHeap]

Err(context, message) ==
  [t |-> "Err", scope |-> context.scope, offset |-> context.offset,
   message |-> message]

OneOfErr(context, message, errors) ==
  [t |-> "OneOfErr", scope |-> context.scope, offset |-> context.offset,
   message |-> message, errors |-> errors]

\* result instanceof Err
IsErr(result) == result.t \in {"Err", "OneOfErr"}

\* a loop that repeats one and the same iteration for ever: the call never
\* returns
NonTermination == [t |-> "nontermination"]

\* the call did not return: it threw, or it never ends
IsAbrupt(result) == result.t \in {"exception", "nontermination"}

Last(s) == s[Len(s)]

\* F applied to the value of v, with v evaluated once
With(v, F(_)) == CHOOSE x \in {F(y) : y \in {v}} : TRUE

\* the place of a parser object that was built during the call
Fresh == <<0>>

\* what a parser call hands back: its return value and the context after it
Ret(val, ctx) == [val |-> val, ctx |-> ctx]

HeapGet(heap, site, initial) ==
  IF site \in DOMAIN heap THEN heap[site] ELSE initial

HeapPut(heap, site, v) ==
  [x \in DOMAIN heap \cup {site} |-> IF x = site THEN v ELSE heap[x]]

\* the array that the parser object at site holds, built with the entries
\* initial: a reference, so that whoever has it sees every later write.  An
\* array that no parser object holds is reached from one place only and is
\* written as List(xs).
Held(site, initial) == [t |-> "held", site |-> site, initial |-> initial]

\* the entries of an array as they are now
Entries(array, heap) ==
  IF array.t = "held" THEN HeapGet(heap, array.site, array.initial)
  ELSE array.v

\* the value as it reads now, with every array in it written out
RECURSIVE Resolve(_, _)
Resolve(val, heap) ==
  IF val.t \in {"held", "array"}
  THEN LET entries == Entries(val, heap) IN
       List([i \in 1..Len(entries) |-> Resolve(entries[i], heap)])
  ELSE val

(***************************************************************************)
(* Regular expressions: a sequence of atoms, each a character class with a *)
(* greedy quantifier {min, max} (max = Unbounded for * and +).  dot is the *)
(* atom ".", which matches a line terminator only under the s flag.        *)
(* A character is a one-character string; a character that a string of     *)
(* this notation cannot hold is written by its code point, "U+2028".       *)
(***************************************************************************)
Unbounded == -1

Atom(cls, neg, min, max) ==
  [dot |-> FALSE, cls |-> cls, neg |-> neg, min |-> min, max |-> max]

Dot(min, max) ==
  [dot |-> TRUE, cls |-> {}, neg |-> FALSE, min |-> min, max |-> max]

RegExp(regexString, atoms) == [src |-> regexString, atoms |-> atoms]

Digits == {"0", "1", "2", "3", "4", "5", "6", "7", "8", "9"}

\* LineTerminator of ECMAScript: LF, CR, LS, PS
LineTerminators == {"\n", "\r", "U+2028", "U+2029"}

AtomMatches(atom, c, dotAll) ==
  IF atom.dot
  THEN dotAll \/ c \notin LineTerminators
  ELSE (c \in atom.cls) # atom.neg

\* how many characters from pos on the atom can take
RECURSIVE RunLength(_, _, _, _, _)
RunLength(atom, source, pos, dotAll, n) ==
  IF /\ pos + n < Len(source)
     /\ (atom.max = Unbounded \/ n < atom.max)
     /\ AtomMatches(atom, source[pos + n + 1], dotAll)
  THEN RunLength(atom, source, pos, dotAll, n + 1)
  ELSE n

\* the end offset of the match of atoms[i..] anchored at pos, or -1
RECURSIVE MatchAtoms(_, _, _, _, _)
RECURSIVE MatchTake(_, _, _, _, _, _)
MatchAtoms(atoms, i, source, pos, dotAll) ==
  IF i > Len(atoms) THEN pos
  ELSE MatchTake(atoms, i, source, pos, dotAll,
                 RunLength(atoms[i], source, pos, dotAll, 0))

\* greedy with backtracking: the longest run first, then shorter ones
MatchTake(atoms, i, source, pos, dotAll, k) ==
  IF k < atoms[i].min THEN -1
  ELSE LET rest == MatchAtoms(atoms, i + 1, source, pos + k, dotAll) IN
       IF rest # -1 THEN rest
       ELSE MatchTake(atoms, i, source, pos, dotAll, k - 1)

\* regexp.exec(source) with the sticky flag y and lastIndex = pos
ExecSticky(regexp, source, pos) ==
  MatchAtoms(regexp.atoms, 1, source, pos, TRUE)

\* regexp.exec(source) with the flag g alone and lastIndex = pos: the first
\* index from pos on at which the pattern matches, and where that match ends.
\* Without the flag s the dot does not match a line terminator.
RECURSIVE ExecGlobal(_, _, _)
ExecGlobal(regexp, source, pos) ==
  IF pos > Len(source) THEN [index |-> -1, lastIndex |-> 0]
  ELSE LET last == MatchAtoms(regexp.atoms, 1, source, pos, FALSE) IN
       IF last # -1 THEN [index |-> pos, lastIndex |-> last]
       ELSE ExecGlobal(regexp, source, pos + 1)

\* source.slice(from, to)
Slice(source, from, to) == SubSeq(source, from + 1, to)

\* source.startsWith(s, offset)
StartsWith(source, s, offset) ==
  /\ offset + Len(s) <= Len(source)
  /\ Slice(source, offset, offset + Len(s)) = s

\* s.slice(0, end)
SliceTo(s, end) ==
  LET to == IF end < 0 THEN Len(s) + end ELSE end IN
  SubSeq(s, 1, IF to < 0 THEN 0 ELSE IF to > Len(s) THEN Len(s) ELSE to)

\* s.split("\n"): the pieces of s between its line feeds
RECURSIVE SplitLines(_, _, _)
SplitLines(s, i, line) ==
  IF i > Len(s) THEN <<line>>
  ELSE IF s[i] = "\n"
       THEN <<line>> \o SplitLines(s, i + 1, <<>>)
       ELSE SplitLines(s, i + 1, Append(line, s[i]))

\* calcPosition that stops before the character at offset
calcPositionBefore(source, offset) ==
  LET sub == SliceTo(source \o <<" ">>, offset)
      lines == SplitLines(sub, 1, <<>>)
  IN [row |-> Len(lines), column |-> Len(lines[Len(lines)])]

calcPosition(source, offset) ==
  LET sub == SliceTo(source \o <<" ">>, offset + 1)
      lines == SplitLines(sub, 1, <<>>)
  IN [row |-> Len(lines), column |-> Len(lines[Len(lines)])]

Range(start, end) == [t |-> "range", start |-> start, end |-> end]

(***************************************************************************)
(* Parsers.                                                                *)
(***************************************************************************)
\* by is the name of the exported function that built the closure: the kind
\* of the closure itself, or the list combinator that is written as a
\* composition of others
Parser(kind, arg, ps) ==
  [kind |-> kind, by |-> kind, arg |-> arg, ps |-> ps, site |-> Fresh]

\* nextItem(separator, itemParser) with the object item for itemParser
nextItemOf(next, item) ==
  IF next.kind = "attempt"
  THEN [next EXCEPT !.ps[1].ps[2] = item]
  ELSE [next EXCEPT !.ps[2] = item]

\* many(itemParser) with the object item for itemParser: in index.ts the
\* one object is wrapped by assertConsumed and captured by lazy's supplier
manyOf(list, item) ==
  IF list.kind = "oneOf"
  THEN [list EXCEPT !.ps[1].ps[1].ps[1] = item, !.ps[1].ps[2].arg.p = item]
  ELSE [list EXCEPT !.ps[1] = item]

\* the item parser object of many(itemParser)
manyItem(list) ==
  IF list.kind = "oneOf" THEN list.ps[1].ps[1].ps[1] ELSE list.ps[1]

\* seq(map, itemParser, tail) of the list combinators with the one object
\* itemParser in both places
listOf(list) ==
  LET item == list.ps[1]
      tail == list.ps[2]
  IN [list EXCEPT !.ps[2] =
        CASE tail.kind = "sepUntilTail" -> [tail EXCEPT !.ps[3].ps[1] = item]
          [] tail.kind = "manyUntil" -> [tail EXCEPT !.ps[2].ps[2] = item]
          [] OTHER -> manyOf(tail, nextItemOf(manyItem(tail), item))]

\* a combinator that uses one argument in two places has one object there,
\* not two: the object of the first place stands in the second too
Shared(p) ==
  CASE p.by = "many" /\ p.kind = "oneOf" -> manyOf(p, manyItem(p))
    [] p.by \in {"sepBy1", "sepUntil1"} /\ p.kind = "seq" -> listOf(p)
    [] p.by \in {"sepBy", "sepBy1"} /\ p.kind = "oneOf" ->
         [p EXCEPT !.ps[1] = listOf(@)]
    [] p.by = "sepUntil" ->
         [p EXCEPT !.ps[2].ps[2].ps[1] = p.ps[1].ps[1]]
    [] OTHER -> p

\* the parser objects of a grammar built before run is called: each is one
\* object, known by its first place in the grammar
RECURSIVE Built(_, _)
Built(parser, site) ==
  Shared(
    [kind |-> parser.kind, by |-> parser.by,
     arg |-> IF parser.kind = "lazy" /\ parser.arg.fn \in {"many", "parser"}
             THEN [parser.arg EXCEPT !.p = Built(@, Append(site, 1))]
             ELSE parser.arg,
     ps |-> [i \in 1..Len(parser.ps) |-> Built(parser.ps[i], Append(site, i))],
     site |-> site])

By(name, parser) == [parser EXCEPT !.by = name]

\* one entry of the call history: the call at position path of the call
\* tree entered at offset at, left at offset out and returned val
Entry(path, parser, context, r) ==
  [path |-> path, kind |-> parser.kind, by |-> parser.by,
   arity |-> Len(parser.ps),
   at |-> context.offset, scope |-> context.scope, out |-> r.ctx.offset,
   left |-> r.ctx.scope, val |-> Resolve(r.val, r.ctx.heap)]

Record(path, parser, context, r) ==
  Ret(r.val,
      [r.ctx EXCEPT !.trace = Append(@, Entry(path, parser, context, r))])


\* a call of a callback (seq's map, map's f) made by the parser call at path
Callback(path, context, r) ==
  Ret(r.val, [r.ctx EXCEPT !.trace = Append(@,
        [path |-> Append(path, 0), kind |-> "callback", by |-> "callback",
         arity |-> 0,
         at |-> context.offset, scope |-> context.scope,
         out |-> r.ctx.offset, left |-> r.ctx.scope,
         val |-> Resolve(r.val, r.ctx.heap)])])

(***************************************************************************)
(* The callbacks the grammars pass to seq and map.                         *)
(***************************************************************************)
Arg(values, i) == IF i <= Len(values) THEN values[i] ELSE Undefined

\* seq's map(...values).  [head, ...tail] makes a new array of head and the
\* entries of tail; tail.unshift(head) writes to tail and returns it.  An
\* array that goes into another goes in as itself, not as a copy.
ApplySeqMap(map, values, context) ==
  CASE map = "$null" -> Ret(Null, context)
    [] map = "$1" -> Ret(Arg(values, 1), context)
    [] map = "$2" -> Ret(Arg(values, 2), context)
    [] map = "$3" -> Ret(Arg(values, 3), context)
    [] map = "cons" ->
         Ret(List(<<values[1]>> \o Entries(values[2], context.heap)), context)
    [] map = "unshift" ->
         LET entries == <<values[1]>> \o Entries(values[2], context.heap) IN
         IF values[2].t = "held"
         THEN Ret(values[2],
                  [context EXCEPT
                     !.heap = HeapPut(@, values[2].site, entries)])
         ELSE Ret(List(entries), context)
    [] map = "zero" -> Ret(Num(0), context)
    [] map = "throwError" -> Ret(Exception("Something is wrong"), context)
    [] OTHER -> Ret(Undefined, context)

\* WhiteSpace of ECMAScript: TAB, VT, FF, ZWNBSP and the space separators
WhiteSpaces ==
  {"\t", "U+000B", "\f", "U+FEFF", " ", "U+00A0", "U+1680", "U+2000",
   "U+2001", "U+2002", "U+2003", "U+2004", "U+2005", "U+2006", "U+2007",
   "U+2008", "U+2009", "U+200A", "U+202F", "U+205F", "U+3000"}

\* StrWhiteSpaceChar, what parseInt skips: WhiteSpace or LineTerminator
IsWhiteSpace(c) == c \in WhiteSpaces \cup LineTerminators

HexDigits ==
  Digits \cup {"a", "b", "c", "d", "e", "f", "A", "B", "C", "D", "E", "F"}

DigitValue(c) ==
  CASE c = "0" -> 0 [] c = "1" -> 1 [] c = "2" -> 2 [] c = "3" -> 3
    [] c = "4" -> 4 [] c = "5" -> 5 [] c = "6" -> 6 [] c = "7" -> 7
    [] c = "8" -> 8 [] c = "9" -> 9
    [] c \in {"a", "A"} -> 10 [] c \in {"b", "B"} -> 11
    [] c \in {"c", "C"} -> 12 [] c \in {"d", "D"} -> 13
    [] c \in {"e", "E"} -> 14 [] c \in {"f", "F"} -> 15

RECURSIVE SkipWhiteSpace(_, _)
SkipWhiteSpace(s, i) ==
  IF i <= Len(s) /\ IsWhiteSpace(s[i]) THEN SkipWhiteSpace(s, i + 1) ELSE i

\* the digits of the radix
RadixDigits(radix) == IF radix = 16 THEN HexDigits ELSE Digits

RECURSIVE ParseDigits(_, _, _, _)
ParseDigits(s, i, n, radix) ==
  IF i <= Len(s) /\ s[i] \in RadixDigits(radix)
  THEN ParseDigits(s, i + 1, radix * n + DigitValue(s[i]), radix)
  ELSE n

\* parseInt(s): leading white space, a sign, 0x or 0X for radix 16, then
\* the longest run of digits of the radix; NaN when there is no digit
ParseInt(s) ==
  LET i == SkipWhiteSpace(s, 1)
      signed == i <= Len(s) /\ s[i] \in {"+", "-"}
      j == IF signed THEN i + 1 ELSE i
      hex == j + 1 <= Len(s) /\ s[j] = "0" /\ s[j + 1] \in {"x", "X"}
      radix == IF hex THEN 16 ELSE 10
      k == IF hex THEN j + 2 ELSE j
      n == ParseDigits(s, k, 0, radix)
  IN IF k <= Len(s) /\ s[k] \in RadixDigits(radix)
     THEN [isNaN |-> FALSE, n |-> IF signed /\ s[i] = "-" THEN 0 - n ELSE n]
     ELSE [isNaN |-> TRUE, n |-> 0]

\* toError that makes the failure where the wrapped parser stopped
toErrorInPlace(message, originalOffset, context) ==
  Ret(Err(context, message), context)

\* toError(message) of map and mapWithRange
toError(message, originalOffset, context) ==
  LET rolled == [context EXCEPT !.offset = originalOffset] IN
  Ret(Err(rolled, message), rolled)

\* mapWithRange's f(result, range, toError)
ApplyMapWithRangeF(f, result, range, originalOffset, context) ==
  CASE f = "range" -> Ret(range, context)
    [] f = "pair" -> Ret(List(<<result, range>>), context)
    [] f = "fail" -> toError(<<"">>, originalOffset, context)
    [] f = "throwError" -> Ret(Exception("Something is wrong"), context)
    [] OTHER -> Ret(result, context)

\* map's f(result, toError)
ApplyMapF(f, result, originalOffset, context) ==
  CASE f = "int" ->
         IF ParseInt(result.v).isNaN
         THEN toError(<<result.v, " is not an integer">>, originalOffset, context)
         ELSE Ret(Num(ParseInt(result.v).n), context)
    [] f = "fail" -> toError(<<"">>, originalOffset, context)
    [] f = "empty" -> Ret(List(<<>>), context)
    [] f = "throwError" -> Ret(Exception("Something is wrong"), context)
    [] OTHER -> Ret(result, context)

(***************************************************************************)
(* Primitive parsers.                                                      *)
(***************************************************************************)
\* end that also succeeds when one character is left
endParserNearEnd(source, context) ==
  IF Len(source) - context.offset > 1
  THEN Ret(Err(context, <<"Not the end of source">>), context)
  ELSE Ret(Null, context)

endParser(source, context) ==
  IF Len(source) # context.offset
  THEN Ret(Err(context, <<"Not the end of source">>), context)
  ELSE Ret(Null, context)

matchParser(regexp, source, context) ==
  LET result == ExecSticky(regexp, source, context.offset) IN
  IF result # -1
  THEN LET s == Slice(source, context.offset, result) IN
       Ret(Str(s), [context EXCEPT !.offset = @ + Len(s)])
  ELSE Ret(Err(context, <<"Did not match ", regexp.src>>), context)

skipParser(regexp, source, context) ==
  LET lastIndex == ExecSticky(regexp, source, context.offset) IN
  IF lastIndex # -1
  THEN Ret(Null, [context EXCEPT !.offset = lastIndex])
  ELSE Ret(Null, context)

\* expectString that steps over the length of s without looking
expectStringParserBlind(arg, source, context) ==
  IF StartsWith(source, arg.s, context.offset)
  THEN Ret(Null, [context EXCEPT !.offset = @ + Len(arg.s)])
  ELSE LET stepped == [context EXCEPT !.offset = @ + Len(arg.s)] IN
       Ret(Err(stepped, <<"Could not find ", arg.name, arg.s>>), stepped)

expectStringParser(arg, source, context) ==
  IF StartsWith(source, arg.s, context.offset)
  THEN Ret(Null, [context EXCEPT !.offset = @ + Len(arg.s)])
  ELSE Ret(Err(context, <<"Could not find ", arg.name, arg.s>>), context)

\* stringBefore that gives up at the end of the source
stringBeforeParserRunsOut(regexp, source, context) ==
  LET result == ExecGlobal(regexp, source, context.offset) IN
  IF result.index = -1
  THEN Ret(Err(context, <<"Did not match ", regexp.src>>),
           [context EXCEPT !.offset = Len(source)])
  ELSE LET s == Slice(source, context.offset, result.index) IN
       Ret(Str(s), [context EXCEPT !.offset = @ + Len(s)])

stringBeforeParser(regexp, source, context) ==
  LET result == ExecGlobal(regexp, source, context.offset) IN
  IF result.index = -1
  THEN Ret(Err(context, <<"Did not match ", regexp.src>>), context)
  ELSE LET s == Slice(source, context.offset, result.index) IN
       Ret(Str(s), [context EXCEPT !.offset = @ + Len(s)])

\* stringUntil that stops where the occurrence starts
stringUntilParserStopsBefore(regexp, source, context) ==
  LET result == ExecGlobal(regexp, source, context.offset) IN
  IF result.index = -1
  THEN Ret(Err(context, <<"Did not match ", regexp.src>>), context)
  ELSE LET s == Slice(source, context.offset, result.index) IN
       Ret(Str(s), [context EXCEPT !.offset = @ + Len(s)])

stringUntilParser(regexp, source, context) ==
  LET result == ExecGlobal(regexp, source, context.offset) IN
  IF result.index = -1
  THEN Ret(Err(context, <<"Did not match ", regexp.src>>), context)
  ELSE LET s == Slice(source, context.offset, result.index) IN
       Ret(Str(s),
           [context EXCEPT
              !.offset = @ + Len(s) + (result.lastIndex - result.index)])

\* stringBeforeEndOr that fails when the pattern is not found
stringBeforeEndOrParserFails(regexp, source, context) ==
  LET result == ExecGlobal(regexp, source, context.offset) IN
  IF result.index = -1
  THEN Ret(Err(context, <<"Did not match ", regexp.src>>), context)
  ELSE LET s == Slice(source, context.offset, result.index) IN
       Ret(Str(s), [context EXCEPT !.offset = @ + Len(s)])

stringBeforeEndOrParser(regexp, source, context) ==
  LET result == ExecGlobal(regexp, source, context.offset)
      index == IF result.index # -1 THEN result.index ELSE Len(source)
      s == Slice(source, context.offset, index)
  IN Ret(Str(s), [context EXCEPT !.offset = @ + Len(s)])

\* () => t: the same t at every call, as it is by then
constantParser(t, site, source, context) ==
  IF t.t = "array" /\ site # Fresh
  THEN Ret(Held(site, t.v), context)
  ELSE Ret(t, context)

\* the function the tests' throwError() returns, used as a parser
throwErrorParser(source, context) ==
  Ret(Exception("Something is wrong"), context)

noopParser(source, context) == Ret(Null, context)

(***************************************************************************)
(* Constructors of the combinators whose closure is written out below.     *)
(***************************************************************************)
end == Parser("end", Null, <<>>)
match(regexp) == Parser("match", regexp, <<>>)
skip(regexp) == Parser("skip", regexp, <<>>)
stringBefore(regexp) == Parser("stringBefore", regexp, <<>>)
stringUntil(regexp) == Parser("stringUntil", regexp, <<>>)
stringBeforeEndOr(regexp) == Parser("stringBeforeEndOr", regexp, <<>>)
expectString(s, name) == Parser("expectString", [s |-> s, name |-> name], <<>>)
noop == Parser("noop", Null, <<>>)
constant(t) == Parser("constant", t, <<>>)
throwError == Parser("throwError", Null, <<>>)
seq(map, parsers) == Parser("seq", map, parsers)
map(parser, f) == Parser("map", f, <<parser>>)
mapWithRange(parser, f) == Parser("mapWithRange", f, <<parser>>)
oneOf(parsers) == Parser("oneOf", Null, parsers)
attempt(parser) == Parser("attempt", Null, <<parser>>)
withContext(name, parser) == Parser("withContext", name, <<parser>>)
lazy(getParser) == Parser("lazy", getParser, <<>>)
assertConsumed(parser) == Parser("assertConsumed", Null, <<parser>>)
guard(guarder, parser) == Parser("guard", Null, <<guarder, parser>>)

manyR2(itemParser) == By("many", Parser("manyR2", Null, <<itemParser>>))
manyUntil(endP, itemParser) == Parser("manyUntil", Null, <<endP, itemParser>>)

symbol(s) == expectString(s, "symbol")

keyword(s) == expectString(s, "keyword")

int(regexp) == map(match(regexp), "int")

(***************************************************************************)
(* many of src/src/index.ts: a recursion through lazy.                     *)
(***************************************************************************)
many(itemParser) ==
  By("many",
     oneOf(<<seq("cons", <<assertConsumed(itemParser),
                           lazy([fn |-> "many", p |-> itemParser])>>),
             constant(List(<<>>))>>))

\* the suppliers handed to lazy
GetParser(getParser) ==
  CASE getParser.fn = "many" -> [t |-> "function", p |-> many(getParser.p)]
    [] getParser.fn = "parser" -> [t |-> "function", p |-> getParser.p]
    [] getParser.fn = "throwError" -> Exception("Something is wrong")
    [] OTHER -> Null

\* nextItem that gives back the separator when the item after it fails
nextItemGivesBack(separator, itemParser) ==
  By("nextItem", attempt(seq("$2", <<separator, itemParser>>)))

\* nextItem that runs the separator bare
nextItemBare(separator, itemParser) ==
  By("nextItem", seq("$2", <<separator, itemParser>>))

nextItem(separator, itemParser) ==
  By("nextItem", seq("$2", <<attempt(separator), itemParser>>))

sepBy(separator, itemParser) ==
  By("sepBy",
     oneOf(<<seq("cons", <<itemParser,
                           many(nextItem(separator, itemParser))>>),
             constant(List(<<>>))>>))

\* sepBy1 that settles for no item
sepBy1Tolerant(separator, itemParser) ==
  By("sepBy1",
     oneOf(<<seq("unshift", <<itemParser,
                              many(nextItem(separator, itemParser))>>),
             constant(List(<<>>))>>))

sepBy1(separator, itemParser) ==
  By("sepBy1",
     seq("unshift", <<itemParser, many(nextItem(separator, itemParser))>>))

sepUntilTail(endP, separator, itemParser) ==
  Parser("sepUntilTail", Null, <<endP, separator, assertConsumed(itemParser)>>)

sepUntil1(endP, separator, itemParser) ==
  By("sepUntil1",
     seq("unshift", <<itemParser,
                      sepUntilTail(endP, separator, itemParser)>>))

sepUntil(endP, separator, itemParser) ==
  By("sepUntil",
     oneOf(<<map(endP, "empty"), sepUntil1(endP, separator, itemParser)>>))

(***************************************************************************)
(* The list combinators of the later revision (src/unnamed/part_003): many *)
(* is a loop there, and sepUntil is built from guard and manyUntil.        *)
(***************************************************************************)
sepByR2(separator, itemParser) ==
  By("sepBy",
     oneOf(<<seq("unshift", <<itemParser,
                              manyR2(nextItem(separator, itemParser))>>),
             constant(List(<<>>))>>))

sepBy1R2(separator, itemParser) ==
  By("sepBy1",
     seq("unshift", <<itemParser, manyR2(nextItem(separator, itemParser))>>))

sepUntil1R2(endP, separator, itemParser) ==
  By("sepUntil1",
     seq("unshift", <<itemParser,
                      manyUntil(endP, seq("$2", <<separator, itemParser>>))>>))

sepUntilR2(endP, separator, itemParser) ==
  By("sepUntil",
     guard(map(endP, "empty"), sepUntil1R2(endP, separator, itemParser)))

(***************************************************************************)
(* The closures: parser(source, context).  path is the position of the     *)
(* call in the call tree: the caller's path and the ordinal of the call.   *)
(***************************************************************************)
RECURSIVE Invoke(_, _, _, _)
RECURSIVE seqLoop(_, _, _, _, _, _, _)
RECURSIVE seqLoopRollback(_, _, _, _, _, _, _)
RECURSIVE oneOfLoop(_, _, _, _, _, _, _)
RECURSIVE oneOfLoopNoCommit(_, _, _, _, _, _, _)
RECURSIVE oneOfLoopLastError(_, _, _, _, _, _, _)
RECURSIVE oneOfLoopCatches(_, _, _, _, _, _, _)
RECURSIVE manyR2Loop(_, _, _, _, _, _)
RECURSIVE manyR2LoopSwallows(_, _, _, _, _, _)
RECURSIVE manyUntilLoop(_, _, _, _, _, _, _)
RECURSIVE sepUntilTailLoop(_, _, _, _, _, _, _, _)

\* seq that gives back what the earlier parsers consumed when a later one
\* fails
seqLoopRollback(f, parsers, i, values, source, context, path) ==
  IF i > Len(parsers)
  THEN Callback(path, context, ApplySeqMap(f, values, context))
  ELSE With(Invoke(parsers[i], source, context, Append(path, i)),
         LAMBDA result :
           IF IsAbrupt(result.val) THEN result
           ELSE IF IsErr(result.val)
                THEN Ret(result.val,
                         [result.ctx EXCEPT !.offset = context.offset])
                ELSE seqLoopRollback(f, parsers, i + 1,
                                     Append(values, result.val), source,
                                     result.ctx, path))

\* the for loop of seq from parser i on, and the call of map after it
seqLoop(f, parsers, i, values, source, context, path) ==
  IF i > Len(parsers)
  THEN Callback(path, context, ApplySeqMap(f, values, context))
  ELSE With(Invoke(parsers[i], source, context, Append(path, i)),
         LAMBDA result :
           IF IsAbrupt(result.val) \/ IsErr(result.val)
           THEN result
           ELSE seqLoop(f, parsers, i + 1, Append(values, result.val),
                        source, result.ctx, path))

seqParser(f, parsers, source, context, path) ==
  seqLoop(f, parsers, 1, <<>>, source, context, path)

mapParser(parser, f, source, context, path) ==
  With(Invoke(parser, source, context, Append(path, 1)),
    LAMBDA result :
      IF IsAbrupt(result.val) \/ IsErr(result.val)
      THEN result
      ELSE Callback(path, result.ctx,
                    ApplyMapF(f, result.val, context.offset, result.ctx)))

\* mapWithRange whose range ends at the offset the wrapped parser stopped at
mapWithRangeParserEndsAfter(parser, f, source, context, path) ==
  LET start == calcPosition(source, context.offset) IN
  With(Invoke(parser, source, context, Append(path, 1)),
    LAMBDA result :
      IF IsAbrupt(result.val) \/ IsErr(result.val)
      THEN result
      ELSE Callback(path, result.ctx,
             ApplyMapWithRangeF(f, result.val,
               Range(start, calcPosition(source, result.ctx.offset)),
               context.offset, result.ctx)))

mapWithRangeParser(parser, f, source, context, path) ==
  LET start == calcPosition(source, context.offset) IN
  With(Invoke(parser, source, context, Append(path, 1)),
    LAMBDA result :
      IF IsAbrupt(result.val) \/ IsErr(result.val)
      THEN result
      ELSE Callback(path, result.ctx,
             ApplyMapWithRangeF(f, result.val,
               Range(start, calcPosition(source, result.ctx.offset - 1)),
               context.offset, result.ctx)))

\* oneOf that goes on to the next alternative whatever the failing one
\* consumed
oneOfLoopNoCommit(parsers, i, errors, originalOffset, source, context, path) ==
  IF i > Len(parsers)
  THEN Ret(OneOfErr(context, <<"None of ", Len(parsers),
                               " parsers was successful">>, errors), context)
  ELSE With(Invoke(parsers[i], source, context, Append(path, i)),
         LAMBDA result :
           IF IsAbrupt(result.val) \/ ~IsErr(result.val)
           THEN result
           ELSE oneOfLoopNoCommit(parsers, i + 1, Append(errors, result.val),
                                  originalOffset, source, result.ctx, path))

\* oneOf that takes an exception of an alternative for a failure in place
oneOfLoopCatches(parsers, i, errors, originalOffset, source, context, path) ==
  IF i > Len(parsers)
  THEN Ret(OneOfErr(context, <<"None of ", Len(parsers),
                               " parsers was successful">>, errors), context)
  ELSE With(Invoke(parsers[i], source, context, Append(path, i)),
         LAMBDA result :
           IF result.val.t = "exception"
           THEN oneOfLoopCatches(parsers, i + 1,
                                 Append(errors, Err(context, <<"exception">>)),
                                 originalOffset, source,
                                 [result.ctx EXCEPT !.offset = originalOffset],
                                 path)
           ELSE IF IsAbrupt(result.val) \/ ~IsErr(result.val)
           THEN result
           ELSE IF originalOffset = result.ctx.offset
                THEN oneOfLoopCatches(parsers, i + 1,
                                      Append(errors, result.val),
                                      originalOffset, source, result.ctx, path)
                ELSE result)

\* oneOf that reports only the failure of the last alternative
oneOfLoopLastError(parsers, i, errors, originalOffset, source, context, path) ==
  IF i > Len(parsers)
  THEN Ret(OneOfErr(context, <<"None of ", Len(parsers),
                               " parsers was successful">>, errors), context)
  ELSE With(Invoke(parsers[i], source, context, Append(path, i)),
         LAMBDA result :
           IF IsAbrupt(result.val) \/ ~IsErr(result.val)
           THEN result
           ELSE IF originalOffset = result.ctx.offset
                THEN oneOfLoopLastError(parsers, i + 1, <<result.val>>,
                                        originalOffset, source, result.ctx,
                                        path)
                ELSE result)

\* the for loop of oneOf from alternative i on, and the OneOfErr after it
oneOfLoop(parsers, i, errors, originalOffset, source, context, path) ==
  IF i > Len(parsers)
  THEN Ret(OneOfErr(context, <<"None of ", Len(parsers),
                               " parsers was successful">>, errors), context)
  ELSE With(Invoke(parsers[i], source, context, Append(path, i)),
         LAMBDA result :
           IF IsAbrupt(result.val) \/ ~IsErr(result.val)
           THEN result
           ELSE IF originalOffset = result.ctx.offset
                THEN oneOfLoop(parsers, i + 1, Append(errors, result.val),
                               originalOffset, source, result.ctx, path)
                ELSE result)

oneOfParser(parsers, source, context, path) ==
  oneOfLoop(parsers, 1, <<>>, context.offset, source, context, path)

\* attempt that forgets to restore the offset
attemptParserNoRestore(parser, source, context, path) ==
  Invoke(parser, source, context, Append(path, 1))

\* attempt that reports the failure at the restored offset
attemptParserMovesErr(parser, source, context, path) ==
  With(Invoke(parser, source, context, Append(path, 1)),
    LAMBDA result :
      IF IsAbrupt(result.val) THEN result
      ELSE IF IsErr(result.val)
           THEN Ret(Err([result.ctx EXCEPT !.offset = context.offset],
                        result.val.message),
                    [result.ctx EXCEPT !.offset = context.offset])
           ELSE result)

attemptParser(parser, source, context, path) ==
  With(Invoke(parser, source, context, Append(path, 1)),
    LAMBDA result :
      IF IsAbrupt(result.val) THEN result
      ELSE IF IsErr(result.val)
           THEN Ret(result.val, [result.ctx EXCEPT !.offset = context.offset])
           ELSE result)

\* withContext that leaves its scope in place when the parser fails
withContextParserKeeps(name, parser, source, context, path) ==
  With(Invoke(parser, source,
              [context EXCEPT !.scope = Scope(context.offset, Str(name), @)],
              Append(path, 1)),
    LAMBDA result :
      IF IsAbrupt(result.val) \/ IsErr(result.val) THEN result
      ELSE Ret(result.val, [result.ctx EXCEPT !.scope = Tail(@)]))

\* an exception leaves the scope pushed: there is no finally
withContextParser(name, parser, source, context, path) ==
  With(Invoke(parser, source,
              [context EXCEPT !.scope = Scope(context.offset, Str(name), @)],
              Append(path, 1)),
    LAMBDA result :
      IF IsAbrupt(result.val) THEN result
      ELSE Ret(result.val, [result.ctx EXCEPT !.scope = Tail(@)]))

lazyParser(getParser, source, context, path) ==
  With(GetParser(getParser),
    LAMBDA parser :
      IF parser.t = "exception" THEN Ret(parser, context)
      ELSE IF parser.t = "null"
           THEN Ret(Exception("Could not get parser"), context)
           ELSE Invoke(parser.p, source, context, Append(path, 1)))

assertConsumedParser(parser, source, context, path) ==
  With(Invoke(parser, source, context, Append(path, 1)),
    LAMBDA result :
      IF IsAbrupt(result.val) \/ IsErr(result.val) THEN result
      ELSE IF result.ctx.offset = context.offset
           THEN Ret(Err(result.ctx, <<"No string consumed">>), result.ctx)
           ELSE result)

\* guard that runs parser from the offset guard was entered at
guardParserRollsBack(guarder, parser, source, context, path) ==
  With(Invoke(guarder, source, context, Append(path, 1)),
    LAMBDA first :
      IF IsAbrupt(first.val) \/ ~IsErr(first.val)
      THEN first
      ELSE Invoke(parser, source,
                  [first.ctx EXCEPT !.offset = context.offset],
                  Append(path, 2)))

guardParser(guarder, parser, source, context, path) ==
  With(Invoke(guarder, source, context, Append(path, 1)),
    LAMBDA first :
      IF IsAbrupt(first.val) \/ ~IsErr(first.val)
      THEN first
      ELSE Invoke(parser, source, first.ctx, Append(path, 2)))

\* many that ends the list at any failure of the item, consumed or not
manyR2LoopSwallows(itemParser, items, n, source, context, path) ==
  With(Invoke(itemParser, source, context, Append(path, n)),
    LAMBDA result :
      IF IsAbrupt(result.val) THEN result
      ELSE IF context.offset = result.ctx.offset \/ IsErr(result.val)
           THEN Ret(List(items), result.ctx)
           ELSE manyR2LoopSwallows(itemParser, Append(items, result.val),
                                   n + 1, source, result.ctx, path))

\* one iteration of the while (true) of many (part_003); n is the ordinal of
\* the next call the loop makes; context.offset is originalOffset
manyR2Loop(itemParser, items, n, source, context, path) ==
  With(Invoke(itemParser, source, context, Append(path, n)),
    LAMBDA result :
      IF IsAbrupt(result.val) THEN result
      ELSE IF context.offset = result.ctx.offset
           THEN Ret(List(items), result.ctx)
           ELSE IF IsErr(result.val)
                THEN result
                ELSE manyR2Loop(itemParser, Append(items, result.val), n + 1,
                                source, result.ctx, path))

manyR2Parser(itemParser, source, context, path) ==
  manyR2Loop(itemParser, <<>>, 1, source, context, path)

\* manyUntil that settles for the items so far when the item fails
manyUntilItemSettles(endP, itemParser, items, n, source, context, ended, path) ==
  With(Invoke(itemParser, source, ended.ctx, Append(path, n + 1)),
    LAMBDA result :
      IF IsAbrupt(result.val) THEN result
      ELSE IF IsErr(result.val)
           THEN Ret(List(items), result.ctx)
           ELSE manyUntilLoop(endP, itemParser, Append(items, result.val),
                              n + 2, source, result.ctx, path))

\* the call of the item in an iteration of manyUntil, after end has failed.
\* An iteration that ends in the context it began with is followed by the
\* same iteration again, without end.
manyUntilItem(endP, itemParser, items, n, source, context, ended, path) ==
  With(Invoke(itemParser, source, ended.ctx, Append(path, n + 1)),
    LAMBDA result :
      IF IsAbrupt(result.val) \/ IsErr(result.val)
      THEN result
      ELSE IF /\ result.ctx.offset = context.offset
              /\ result.ctx.scope = context.scope
           THEN Ret(NonTermination, result.ctx)
           ELSE manyUntilLoop(endP, itemParser, Append(items, result.val),
                              n + 2, source, result.ctx, path))

\* one iteration of the while (true) of manyUntil
manyUntilLoop(endP, itemParser, items, n, source, context, path) ==
  With(Invoke(endP, source, context, Append(path, n)),
    LAMBDA ended :
      IF IsAbrupt(ended.val) THEN ended
      ELSE IF ~IsErr(ended.val)
           THEN Ret(List(items), ended.ctx)
           ELSE manyUntilItem(endP, itemParser, items, n, source, context,
                              ended, path))

manyUntilParser(endP, itemParser, source, context, path) ==
  manyUntilLoop(endP, itemParser, <<>>, 1, source, context, path)

\* sepUntilTail when the separator has failed: the list ends if end matches
sepUntilTailEnd(endP, items, n, source, context, path) ==
  With(Invoke(endP, source, context, Append(path, n + 1)),
    LAMBDA ended :
      IF IsAbrupt(ended.val) \/ IsErr(ended.val)
      THEN ended
      ELSE Ret(List(items), ended.ctx))

\* one iteration of the while (true) of sepUntilTail (index.ts)
sepUntilTailLoop(endP, separator, itemParser2, items, n, source, context, path) ==
  With(Invoke(separator, source, context, Append(path, n)),
    LAMBDA result :
      IF IsAbrupt(result.val) THEN result
      ELSE IF IsErr(result.val)
           THEN sepUntilTailEnd(endP, items, n, source, result.ctx, path)
           ELSE With(Invoke(itemParser2, source, result.ctx,
                            Append(path, n + 1)),
                  LAMBDA result2 :
                    IF IsAbrupt(result2.val) \/ IsErr(result2.val)
                    THEN result2
                    ELSE sepUntilTailLoop(endP, separator, itemParser2,
                                          Append(items, result2.val), n + 2,
                                          source, result2.ctx, path)))

sepUntilTailParser(endP, separator, itemParser2, source, context, path) ==
  sepUntilTailLoop(endP, separator, itemParser2, <<>>, 1, source, context, path)

\* parser(source, context), entered in the history when it returns
Invoke(parser, source, context, path) ==
  With(
    CASE parser.kind = "end" -> endParser(source, context)
      [] parser.kind = "match" -> matchParser(parser.arg, source, context)
      [] parser.kind = "skip" -> skipParser(parser.arg, source, context)
      [] parser.kind = "stringBefore" ->
           stringBeforeParser(parser.arg, source, context)
      [] parser.kind = "stringUntil" ->
           stringUntilParser(parser.arg, source, context)
      [] parser.kind = "stringBeforeEndOr" ->
           stringBeforeEndOrParser(parser.arg, source, context)
      [] parser.kind = "expectString" ->
           expectStringParser(parser.arg, source, context)
      [] parser.kind = "noop" -> noopParser(source, context)
      [] parser.kind = "constant" ->
           constantParser(parser.arg, parser.site, source, context)
      [] parser.kind = "throwError" -> throwErrorParser(source, context)
      [] parser.kind = "seq" ->
           seqParser(parser.arg, parser.ps, source, context, path)
      [] parser.kind = "map" ->
           mapParser(parser.ps[1], parser.arg, source, context, path)
      [] parser.kind = "mapWithRange" ->
           mapWithRangeParser(parser.ps[1], parser.arg, source, context, path)
      [] parser.kind = "oneOf" -> oneOfParser(parser.ps, source, context, path)
      [] parser.kind = "attempt" ->
           attemptParser(parser.ps[1], source, context, path)
      [] parser.kind = "withContext" ->
           withContextParser(parser.arg, parser.ps[1], source, context, path)
      [] parser.kind = "lazy" -> lazyParser(parser.arg, source, context, path)
      [] parser.kind = "assertConsumed" ->
           assertConsumedParser(parser.ps[1], source, context, path)
      [] parser.kind = "guard" ->
           guardParser(parser.ps[1], parser.ps[2], source, context, path)
      [] parser.kind = "manyR2" ->
           manyR2Parser(parser.ps[1], source, context, path)
      [] parser.kind = "manyUntil" ->
           manyUntilParser(parser.ps[1], parser.ps[2], source, context, path)
      [] parser.kind = "sepUntilTail" ->
           sepUntilTailParser(parser.ps[1], parser.ps[2], parser.ps[3],
                              source, context, path),
    LAMBDA r : Record(path, parser, context, r))

(***************************************************************************)
(* The grammars the model runs: those of the test suites                   *)
(* (src/test/parser.ts, src/unnamed/part_002) over the model's alphabet,   *)
(* and nestings of them.                                                   *)
(***************************************************************************)
ReA == RegExp("a", <<Atom({"a"}, FALSE, 1, 1)>>)
ReB == RegExp("b", <<Atom({"b"}, FALSE, 1, 1)>>)
ReAB == RegExp("ab", <<Atom({"a"}, FALSE, 1, 1), Atom({"b"}, FALSE, 1, 1)>>)
ReAPlus == RegExp("a+", <<Atom({"a"}, FALSE, 1, Unbounded)>>)
ReDigit == RegExp("\\d", <<Atom(Digits, FALSE, 1, 1)>>)
ReAny == RegExp(".*", <<Dot(0, Unbounded)>>)
ReAnyOne == RegExp(".", <<Dot(1, 1)>>)
ReCommas == RegExp(",*", <<Atom({","}, FALSE, 0, Unbounded)>>)

aThenA == seq("$1", <<match(ReA), match(ReA)>>)
aThenB == seq("zero", <<match(ReA), match(ReB)>>)
bangA == seq("$2", <<symbol(<<"!">>), match(ReA)>>)
commaBang == seq("$null", <<symbol(<<",">>), symbol(<<"!">>)>>)
digit == int(ReDigit)
\* an end that skips before it looks for its symbol, as bracedSep's
\* seq($null, _, symbol(end)) does, with commas for the white space
commasBang == seq("$null", <<skip(ReCommas), symbol(<<"!">>)>>)

ReNotBang == RegExp("[^!]*", <<Atom({"!"}, TRUE, 0, Unbounded)>>)

Grammars == <<
  \* oneOf
  oneOf(<<match(ReA), match(ReB)>>),
  oneOf(<<aThenA, match(ReAB)>>),
  oneOf(<<match(ReB), aThenB, match(ReAPlus)>>),
  oneOf(<<attempt(aThenB), aThenA, match(ReAPlus)>>),
  oneOf(<<>>),
  oneOf(<<oneOf(<<match(ReB), digit>>), int(ReA), constant(Str(<<"z">>))>>),
  seq("$2", <<match(ReA), oneOf(<<aThenB, match(ReA)>>)>>),
  seq("$2", <<match(ReAPlus), oneOf(<<match(ReB), symbol(<<",">>), end>>)>>),
  \* attempt
  oneOf(<<attempt(bangA), constant(Str(<<"z">>))>>),
  oneOf(<<bangA, constant(Str(<<"z">>))>>),
  attempt(aThenB),
  seq("$2", <<match(ReA), attempt(aThenB)>>),
  \* seq
  seq("$1", <<match(ReA), end>>),
  seq("$3", <<match(ReA), match(ReB), digit>>),
  seq("throwError", <<match(ReA), end>>),
  \* many
  many(digit),
  manyR2(digit),
  many(match(ReAny)),
  manyR2(match(ReAny)),
  many(aThenB),
  manyR2(aThenB),
  many(attempt(aThenB)),
  manyR2(attempt(aThenB)),
  seq("$2", <<match(ReB), many(oneOf(<<digit, aThenB>>))>>),
  seq("$2", <<match(ReB), manyR2(oneOf(<<digit, aThenB>>))>>),
  \* sepBy, sepBy1
  sepBy(symbol(<<",">>), digit),
  sepBy1(symbol(<<",">>), digit),
  sepByR2(symbol(<<",">>), digit),
  sepBy1R2(symbol(<<",">>), digit),
  sepBy(commaBang, digit),
  sepBy1(commaBang, digit),
  sepByR2(commaBang, digit),
  sepBy1R2(commaBang, digit),
  sepBy(symbol(<<",">>), attempt(aThenB)),
  sepBy1(symbol(<<",">>), attempt(aThenB)),
  sepByR2(symbol(<<",">>), aThenB),
  sepBy1R2(symbol(<<",">>), aThenB),
  sepBy(skip(ReCommas), digit),
  sepBy1R2(skip(ReCommas), digit),
  \* sepUntil, sepUntil1
  sepUntil(symbol(<<"!">>), symbol(<<",">>), digit),
  sepUntil1(end, symbol(<<",">>), digit),
  sepUntilR2(symbol(<<"!">>), symbol(<<",">>), digit),
  sepUntil1R2(end, symbol(<<",">>), digit),
  sepUntil1(end, skip(ReCommas), digit),
  sepUntil1R2(end, skip(ReCommas), digit),
  \* items that fail after advancing, rolled back or not
  sepBy(symbol(<<",">>), attempt(oneOf(<<digit, aThenB>>))),
  sepBy(symbol(<<",">>), aThenB),
  sepBy1(symbol(<<",">>), aThenB),
  \* manyUntil
  manyUntil(symbol(<<"!">>), digit),
  manyUntil(symbol(<<"!">>), aThenB),
  \* map, mapWithRange
  int(ReA),
  map(match(ReA), "fail"),
  map(match(ReA), "throwError"),
  mapWithRange(match(ReA), "range"),
  mapWithRange(match(ReAny), "pair"),
  mapWithRange(match(ReA), "fail"),
  mapWithRange(match(ReA), "throwError"),
  oneOf(<<mapWithRange(match(ReAPlus), "fail"), match(ReAny)>>),
  \* exceptions
  throwError,
  lazy([fn |-> "throwError"]),
  lazy([fn |-> "null"]),
  lazy([fn |-> "parser", p |-> aThenB]),
  oneOf(<<map(match(ReA), "throwError"), match(ReAny)>>),
  oneOf(<<attempt(seq("throwError", <<match(ReA), match(ReB)>>)),
          lazy([fn |-> "null"])>>),
  many(mapWithRange(match(ReA), "throwError")),
  manyR2(seq("$2", <<match(ReA), oneOf(<<digit, throwError>>)>>)),
  \* run
  seq("$2", <<match(ReAnyOne), attempt(aThenB)>>),
  \* withContext
  withContext("x", aThenB),
  oneOf(<<withContext("x", match(ReB)), withContext("y", aThenB)>>),
  withContext("x", seq("$2", <<match(ReA), withContext("y", digit)>>)),
  seq("$2", <<withContext("x", match(ReA)), match(ReB)>>),
  \* end, keyword, stringBefore, stringUntil, stringBeforeEndOr
  end,
  seq("$2", <<match(ReAnyOne), oneOf(<<keyword(<<"a", "b">>), end>>)>>),
  stringBefore(ReA),
  stringUntil(ReA),
  stringBeforeEndOr(ReA),
  stringBefore(ReAPlus),
  stringUntil(ReAPlus),
  stringBeforeEndOr(ReAPlus),
  stringUntil(ReAnyOne),
  seq("$null", <<stringBefore(ReA), match(ReAB)>>),
  seq("$null", <<stringUntil(ReA), match(ReAB)>>),
  seq("$null", <<stringBefore(ReA), match(ReB)>>),
  seq("$null", <<stringUntil(ReA), match(ReB)>>),
  seq("$2", <<match(ReAnyOne), oneOf(<<stringBefore(ReB), stringUntil(ReA)>>)>>),
  seq("$2", <<match(ReAnyOne), stringBeforeEndOr(ReB)>>),
  seq("$2", <<stringUntil(ReA), stringBeforeEndOr(ReB)>>),
  seq("$2", <<match(ReAnyOne), mapWithRange(match(ReAPlus), "range")>>),
  \* guard
  guard(match(ReA), match(ReB)),
  guard(aThenA, match(ReAB)),
  seq("$2", <<match(ReAnyOne), guard(aThenB, match(ReAny))>>),
  \* scopes that are entered on different lines
  withContext("x", seq("$3", <<match(ReA), match(ReAnyOne),
                               withContext("y", digit)>>)),
  \* an end that consumes before it fails
  manyUntil(commasBang, digit),
  sepUntil1(commaBang, symbol(<<"!">>), digit),
  sepUntil1R2(commasBang, symbol(<<",">>), digit),
  \* an end and a separator that match the same text
  sepUntil1(symbol(<<",">>), symbol(<<",">>), digit),
  sepUntil1R2(symbol(<<",">>), symbol(<<",">>), digit),
  sepUntil(symbol(<<",">>), symbol(<<",">>), digit),
  sepUntilR2(symbol(<<",">>), symbol(<<",">>), digit),
  \* an item, and a separator with its item, that can match the empty string
  manyUntil(symbol(<<"!">>), match(ReNotBang)),
  manyUntil(end, skip(ReCommas)),
  sepUntil1R2(symbol(<<"!">>), skip(ReCommas), match(ReNotBang)),
  sepUntilR2(symbol(<<"!">>), skip(ReCommas), match(ReNotBang)),
  sepUntil1(symbol(<<"!">>), skip(ReCommas), match(ReNotBang)),
  sepUntil(symbol(<<"!">>), skip(ReCommas), match(ReNotBang))
>>

(***************************************************************************)
(* The state: one call of run(parser, source).                             *)
(***************************************************************************)
\* items and frames are used when a call of many is followed step by step:
\* the values collected so far, and the entry offsets of the calls of many
\* (index.ts) that wait for the many they called through lazy
VARIABLES source, parser, context, result, pc, items, frames, earlier

vars == <<source, parser, context, result, pc, items, frames, earlier>>

ParseError(src, error) == [t |-> "ParseError", source |-> src, error |-> error]

\* the getters of ParseError
ParseErrorOffset(e) == e.error.offset

getPosition(e, offset) == calcPosition(e.source, offset)

ParseErrorPosition(e) == getPosition(e, ParseErrorOffset(e))

\* " ".repeat(n)
Repeat(c, n) == [i \in 1..n |-> c]

DigitChars == <<"0", "1", "2", "3", "4", "5", "6", "7", "8", "9">>

\* String(n), for n >= 0, as its characters
RECURSIVE NumStr(_)
NumStr(n) ==
  IF n < 10 THEN <<DigitChars[n + 1]>>
  ELSE Append(NumStr(n \div 10), DigitChars[(n % 10) + 1])

\* s.padStart(n)
PadStart(s, n) == Repeat(" ", n - Len(s)) \o s

\* array.slice(from, to), for from >= 0 and to >= 0
SliceArray(array, from, to) ==
  SubSeq(array, from + 1, IF to > Len(array) THEN Len(array) ELSE to)

\* one line of the text explain builds (what one text += adds, without its
\* line feed), with the name of the part of the text it belongs to
Line(part, text) == [part |-> part, text |-> text]

\* appendSubMessages(error, indent)
RECURSIVE appendSubMessages(_, _)
RECURSIVE appendSubMessagesFrom(_, _, _)
appendSubMessages(error, indent) ==
  IF error.t = "OneOfErr"
  THEN appendSubMessagesFrom(error.errors, 1, indent)
  ELSE <<>>

appendSubMessagesFrom(errors, i, indent) ==
  IF i > Len(errors) THEN <<>>
  ELSE <<Line("sub", Repeat(" ", indent) \o <<"- ", errors[i].message>>)>>
       \o appendSubMessages(errors[i], indent + 2)
       \o appendSubMessagesFrom(errors, i + 1, indent)

\* the excerpt that holds the line of the failure only
explainExcerptLastRow(lines, startPos, errorPos, r) ==
  IF r > errorPos.row THEN <<>>
  ELSE LET k == errorPos.row - startPos.row + 1
           line == IF k <= Len(lines) THEN lines[k] ELSE <<"undefined">>
       IN <<Line("source",
                 PadStart(NumStr(errorPos.row), 5) \o <<"|", " ">> \o line)>>

\* for (let r = startPos.row; r <= errorPos.row; r++): the lines of the
\* excerpt from row r on; lines is the slice of the source's lines
RECURSIVE explainExcerpt(_, _, _, _)
explainExcerpt(lines, startPos, errorPos, r) ==
  IF r > errorPos.row THEN <<>>
  ELSE LET line == IF r - startPos.row + 1 <= Len(lines)
                   THEN lines[r - startPos.row + 1]
                   ELSE <<"undefined">>
       IN <<Line("source", PadStart(NumStr(r), 5) \o <<"|", " ">> \o line)>>
          \o explainExcerpt(lines, startPos, errorPos, r + 1)

\* the scopes listed with the position of the failure
RECURSIVE explainContextAtFailure(_, _)
explainContextAtFailure(e, scope) ==
  IF scope = <<>> \/ scope[1].name = NullName THEN <<>>
  ELSE LET pos == ParseErrorPosition(e) IN
       <<Line("scope", <<"    at ", scope[1].name.v, " (">> \o NumStr(pos.row)
                       \o <<":">> \o NumStr(pos.column) \o <<") ">>)>>
       \o explainContextAtFailure(e, Tail(scope))

\* while (scope && scope.name !== null): one line for each named scope
RECURSIVE explainContext(_, _)
explainContext(e, scope) ==
  IF scope = <<>> \/ scope[1].name = NullName THEN <<>>
  ELSE LET pos == getPosition(e, scope[1].offset) IN
       <<Line("scope", <<"    at ", scope[1].name.v, " (">> \o NumStr(pos.row)
                       \o <<":">> \o NumStr(pos.column) \o <<") ">>)>>
       \o explainContext(e, Tail(scope))

\* explain() of src/src/index.ts: the text, as the sequence of its lines
explain(e) ==
  LET startPos == getPosition(e, e.error.scope[1].offset)
      errorPos == ParseErrorPosition(e)
      lines == SliceArray(SplitLines(e.source, 1, <<>>),
                          startPos.row - 1, errorPos.row)
  IN <<Line("message", <<e.error.message, " (">> \o NumStr(errorPos.row)
                         \o <<":">> \o NumStr(errorPos.column) \o <<")">>)>>
     \o appendSubMessages(e.error, 2)
     \o <<Line("blank", <<>>)>>
     \o explainExcerpt(lines, startPos, errorPos, startPos.row)
     \o <<Line("caret", Repeat(" ", 6 + errorPos.column) \o <<"^">>)>>
     \o <<Line("title", <<"Context:">>)>>
     \o explainContext(e, e.error.scope)

\* if (scope.name): null and the empty string are not truthy
Truthy(name) == name.t = "string" /\ name.v # ""

\* explain() of src/unnamed/part_003: the line Context: is written only
\* when the scope of the failure has a name
explainR2(e) ==
  LET startPos == getPosition(e, e.error.scope[1].offset)
      errorPos == ParseErrorPosition(e)
      lines == SliceArray(SplitLines(e.source, 1, <<>>),
                          startPos.row - 1, errorPos.row)
  IN <<Line("message", <<e.error.message, " (">> \o NumStr(errorPos.row)
                         \o <<":">> \o NumStr(errorPos.column) \o <<")">>)>>
     \o appendSubMessages(e.error, 2)
     \o <<Line("blank", <<>>)>>
     \o explainExcerpt(lines, startPos, errorPos, startPos.row)
     \o <<Line("caret", Repeat(" ", 6 + errorPos.column) \o <<"^">>)>>
     \o (IF Truthy(e.error.scope[1].name)
         THEN <<Line("title", <<"Context:">>)>>
         ELSE <<>>)
     \o explainContext(e, e.error.scope)

\* some closure of the grammar is of one of the kinds
RECURSIVE Uses(_, _)
Uses(p, kinds) ==
  \/ p.kind \in kinds
  \/ p.kind = "lazy" /\ p.arg.fn = "many" /\ "lazyMany" \in kinds
  \/ /\ p.kind = "lazy"
     /\ p.arg.fn \in {"many", "parser"}
     /\ Uses(p.arg.p, kinds)
  \/ \E i \in 1..Len(p.ps) : Uses(p.ps[i], kinds)

\* the grammar can be written with src/src/index.ts: it has no guard, no
\* manyUntil and no many that is a loop
InIndexTs(p) == ~Uses(p, {"guard", "manyUntil", "manyR2"})

\* the grammar can be written with src/unnamed/part_003: it has no
\* assertConsumed, no sepUntilTail and no many that recurs through lazy
InPart003(p) == ~Uses(p, {"sepUntilTail", "lazyMany", "assertConsumed"})

\* the caller has picked a parser and a source, and has not called run yet
Init ==
  /\ source \in Sources
  /\ \E g \in 1..Len(Grammars) : parser = Grammars[g]
  /\ context = Context
  /\ result = Undefined
  /\ pc = "ready"
  /\ items = <<>>
  /\ frames = <<>>
  /\ earlier = <<>>

\* run that reports the failure at the offset the context was left at
RunAtContextOffset ==
  /\ pc = "ready"
  /\ \E r \in {Invoke(Built(parser, <<>>), source, Context, <<>>)} :
     /\ context' = r.ctx
     /\ IF IsAbrupt(r.val)
        THEN /\ result' = r.val
             /\ pc' = IF r.val.t = "exception" THEN "threw" ELSE "running"
        ELSE IF IsErr(r.val)
             THEN /\ result' = ParseError(source,
                                 [r.val EXCEPT !.offset = r.ctx.offset])
                  /\ pc' = "threw"
             ELSE /\ result' = Resolve(r.val, r.ctx.heap)
                  /\ pc' = "returned"
  /\ UNCHANGED <<earlier, source, parser, items, frames>>

\* run(parser, source)
Run ==
  /\ pc = "ready"
  /\ \E r \in {Invoke(Built(parser, <<>>), source, Context, <<>>)} :
     /\ context' = r.ctx
     /\ IF IsAbrupt(r.val)
        THEN /\ result' = r.val
             /\ pc' = IF r.val.t = "exception" THEN "threw" ELSE "running"
        ELSE IF IsErr(r.val)
             THEN /\ result' = ParseError(source, r.val)
                  /\ pc' = "threw"
             ELSE /\ result' = Resolve(r.val, r.ctx.heap)
                  /\ pc' = "returned"
  /\ UNCHANGED <<earlier, source, parser, items, frames>>

\* run(parser, source) is called once more with the same parser objects;
\* earlier keeps how the first call ended
RunAgain ==
  /\ pc \in {"returned", "threw"}
  /\ earlier = <<>>
  /\ earlier' = <<[pc |-> pc, result |-> result, offset |-> context.offset]>>
  /\ \E r \in {Invoke(Built(parser, <<>>), source,
                      [Context EXCEPT !.heap = context.heap], <<>>)} :
     /\ context' = r.ctx
     /\ IF IsAbrupt(r.val)
        THEN /\ result' = r.val
             /\ pc' = IF r.val.t = "exception" THEN "threw" ELSE "running"
        ELSE IF IsErr(r.val)
             THEN /\ result' = ParseError(source, r.val)
                  /\ pc' = "threw"
             ELSE /\ result' = Resolve(r.val, r.ctx.heap)
                  /\ pc' = "returned"
  /\ UNCHANGED <<source, parser, items, frames>>

Next == Run

NextTwice == Run \/ RunAgain

Spec == Init /\ [][Next]_vars

\* the same parser run twice
SpecTwice == Init /\ [][NextTwice]_vars

\* the caller catches the ParseError of src/src/index.ts and calls its
\* explain()
Explain ==
  /\ pc = "threw"
  /\ result.t = "ParseError"
  /\ InIndexTs(parser)
  /\ result' = [t |-> "explained", error |-> result, text |-> explain(result)]
  /\ pc' = "explained"
  /\ UNCHANGED <<source, parser, context, items, frames, earlier>>

\* the caller catches the ParseError of src/unnamed/part_003 and calls its
\* explain()
ExplainR2 ==
  /\ pc = "threw"
  /\ result.t = "ParseError"
  /\ InPart003(parser)
  /\ result' = [t |-> "explained", error |-> result,
                text |-> explainR2(result)]
  /\ pc' = "explained"
  /\ UNCHANGED <<source, parser, context, items, frames, earlier>>

NextExplain == Run \/ Explain \/ ExplainR2

\* a run whose ParseError is explained
SpecExplain == Init /\ [][NextExplain]_vars



(***************************************************************************)
(* run(many(item), source) followed one iteration at a time.  Each call of *)
(* the item is taken whole; the history of calls is not kept.              *)
(***************************************************************************)
ManyItems == <<
  digit,
  match(ReAny),
  match(ReAPlus),
  aThenB,
  attempt(aThenB),
  oneOf(<<digit, aThenB>>),
  constant(Num(0)),
  skip(ReCommas),
  end
>>

InitMany ==
  /\ source \in Sources
  /\ \E i \in 1..Len(ManyItems) : parser \in {many(ManyItems[i]), manyR2(ManyItems[i])}
  /\ context = Context
  /\ result = Undefined
  /\ pc = "ready"
  /\ items = <<>>
  /\ frames = <<>>
  /\ earlier = <<>>

Forget(ctx) == [ctx EXCEPT !.trace = <<>>]

\* many (part_003) that goes round again when the item made no progress
ManyR2StepNoBreak ==
  /\ parser.kind = "manyR2"
  /\ pc \in {"ready", "loop"}
  /\ \E originalOffset \in {context.offset},
        r \in {Invoke(parser.ps[1], source, context, <<1>>)} :
        /\ context' = Forget(r.ctx)
        /\ IF IsAbrupt(r.val)
           THEN /\ pc' = IF r.val.t = "exception" THEN "threw" ELSE "running"
                /\ result' = r.val
                /\ items' = items
           ELSE IF originalOffset = r.ctx.offset
                THEN pc' = "loop" /\ result' = result /\ items' = items
                ELSE IF IsErr(r.val)
                     THEN /\ pc' = "threw"
                          /\ result' = ParseError(source, r.val)
                          /\ items' = items
                     ELSE /\ pc' = "loop"
                          /\ result' = result
                          /\ items' = Append(items, r.val)
  /\ UNCHANGED <<earlier, source, parser, frames>>

\* one iteration of the while (true) of many (part_003), and the return of
\* run when the loop is left
ManyR2Step ==
  /\ parser.kind = "manyR2"
  /\ pc \in {"ready", "loop"}
  /\ \E originalOffset \in {context.offset},
        r \in {Invoke(parser.ps[1], source, context, <<1>>)} :
        /\ context' = Forget(r.ctx)
        /\ IF IsAbrupt(r.val)
           THEN /\ pc' = IF r.val.t = "exception" THEN "threw" ELSE "running"
                /\ result' = r.val
                /\ items' = items
           ELSE IF originalOffset = r.ctx.offset
                THEN /\ pc' = "returned"
                     /\ result' = List(items)
                     /\ items' = items
                ELSE IF IsErr(r.val)
                     THEN /\ pc' = "threw"
                          /\ result' = ParseError(source, r.val)
                          /\ items' = items
                     ELSE /\ pc' = "loop"
                          /\ result' = result
                          /\ items' = Append(items, r.val)
  /\ UNCHANGED <<earlier, source, parser, frames>>

\* one call of many (index.ts): oneOf notes the offset and seq calls
\* assertConsumed(itemParser); on success seq goes on to lazy, which calls
\* many again; on failure oneOf compares the offsets and either passes the
\* failure on or returns the constant []
ManyDescend ==
  /\ parser.kind = "oneOf"
  /\ pc \in {"ready", "loop"}
  /\ \E originalOffset \in {context.offset},
        r \in {Invoke(parser.ps[1].ps[1], source, context, <<1>>)} :
        /\ context' = Forget(r.ctx)
        /\ IF IsAbrupt(r.val)
           THEN /\ pc' = IF r.val.t = "exception" THEN "threw" ELSE "running"
                /\ result' = r.val
                /\ UNCHANGED <<items, frames>>
           ELSE IF IsErr(r.val)
                THEN /\ pc' = "unwind"
                     /\ result' = IF originalOffset = r.ctx.offset
                                   THEN List(<<>>)
                                   ELSE r.val
                     /\ UNCHANGED <<items, frames>>
                ELSE /\ pc' = "loop"
                     /\ result' = result
                     /\ items' = Append(items, r.val)
                     /\ frames' = Append(frames, originalOffset)
  /\ UNCHANGED <<earlier, source, parser>>

\* the many called through lazy has returned result to the seq of the call
\* that waits for it: seq conses the head, or passes the failure to oneOf
ManyUnwind ==
  /\ pc = "unwind"
  /\ frames # <<>>
  /\ result' = IF IsErr(result)
               THEN IF Last(frames) = context.offset
                    THEN List(<<>>)
                    ELSE result
               ELSE List(<<Last(items)>> \o result.v)
  /\ items' = SubSeq(items, 1, Len(items) - 1)
  /\ frames' = SubSeq(frames, 1, Len(frames) - 1)
  /\ UNCHANGED <<earlier, source, parser, context, pc>>

\* the outermost many has returned to run
ManyReturn ==
  /\ pc = "unwind"
  /\ frames = <<>>
  /\ IF IsErr(result)
     THEN pc' = "threw" /\ result' = ParseError(source, result)
     ELSE pc' = "returned" /\ result' = result
  /\ UNCHANGED <<earlier, source, parser, context, items, frames>>

NextMany == ManyR2Step \/ ManyDescend \/ ManyUnwind \/ ManyReturn

\* the program is sequential and synchronous: a step that can be taken is
\* taken
SpecMany == InitMany /\ [][NextMany]_vars /\ WF_vars(NextMany)

(***************************************************************************)
(* Reading the call history.                                               *)
(***************************************************************************)
Trace == context.trace

IsChild(c, e) ==
  /\ Len(c.path) = Len(e.path) + 1
  /\ SubSeq(c.path, 1, Len(e.path)) = e.path

\* the parser calls made by call e, in the order they were made
Calls(e) == SelectSeq(Trace, LAMBDA c : IsChild(c, e) /\ c.kind # "callback")

\* the callback calls made by call e
Callbacks(e) == SelectSeq(Trace, LAMBDA c : IsChild(c, e) /\ c.kind = "callback")

\* everything call e called, in order
Callees(e) == SelectSeq(Trace, LAMBDA c : IsChild(c, e))

SameVal(a, b) == a.t = b.t /\ a = b

\* the calls of the history that returned (a value or an Err)
Returned(kind) ==
  {n \in 1..Len(Trace) : Trace[n].kind = kind /\ ~IsAbrupt(Trace[n].val)}

ReturnedBy(name) ==
  {n \in 1..Len(Trace) : Trace[n].by = name /\ ~IsAbrupt(Trace[n].val)}

HasEntry(path) == \E n \in 1..Len(Trace) : Trace[n].path = path

EntryAt(path) == Trace[CHOOSE n \in 1..Len(Trace) : Trace[n].path = path]

\* the i-th call made by e is the call of its i-th parser
InOrder(cs) == \A i \in 1..Len(cs) : Last(cs[i].path) = i

\* every call starts where the one before it stopped
Threaded(e, cs) ==
  \A i \in 1..Len(cs) : cs[i].at = IF i = 1 THEN e.at ELSE cs[i - 1].out

(***************************************************************************)
(* C1: oneOf runs its alternatives in order; it returns the first success  *)
(* and runs nothing after it; after a failure it tries the next            *)
(* alternative exactly when the offset is the one oneOf was entered at,    *)
(* and otherwise returns that failure at once with the offset left where   *)
(* the alternative left it.                                                *)
(***************************************************************************)
C1_OneOfCommits ==
  /\ \A n \in Returned("oneOf") :
       LET e == Trace[n]
           cs == Calls(e)
       IN /\ InOrder(cs)
          /\ Len(cs) <= e.arity
          /\ \A i \in 1..(Len(cs) - 1) : IsErr(cs[i].val) /\ cs[i].out = e.at
          /\ Len(cs) = 0 => e.arity = 0
          /\ Len(cs) > 0 =>
               LET c == Last(cs) IN
               /\ ~IsErr(c.val) => SameVal(e.val, c.val) /\ e.out = c.out
               /\ IsErr(c.val) /\ c.out # e.at =>
                    SameVal(e.val, c.val) /\ e.out = c.out
               /\ IsErr(c.val) /\ c.out = e.at => Len(cs) = e.arity
  /\ (pc # "ready" /\ parser = oneOf(<<aThenA, match(ReAB)>>) /\ source = <<"a", "b">>) =>
       result.t = "ParseError" /\ result.error.offset = 1

\* an alternative failed after consuming, and a later alternative was left
\* untried
C1_Witness ==
  \E n \in Returned("oneOf") :
    LET e == Trace[n]
        cs == Calls(e)
    IN /\ Len(cs) > 0 /\ Len(cs) < e.arity
       /\ IsErr(Last(cs).val) /\ Last(cs).out > e.at
       /\ IsErr(e.val)

(***************************************************************************)
(* C2: attempt(p) leaves the offset where it was at entry when p fails,    *)
(* whatever p consumed, and where p left it when p succeeds; so a oneOf    *)
(* whose alternative attempt(p) fails tries the next alternative from the  *)
(* original offset.                                                        *)
(***************************************************************************)
C2_AttemptRestores ==
  /\ \A n \in Returned("attempt") :
       LET e == Trace[n]
           c == Calls(e)[1]
       IN /\ Len(Calls(e)) = 1
          /\ SameVal(e.val, c.val)
          /\ IsErr(c.val) => e.out = e.at
          /\ ~IsErr(c.val) => e.out = c.out
  /\ \A n \in Returned("oneOf") :
       LET e == Trace[n]
           cs == Calls(e)
       IN \A i \in 1..Len(cs) :
            (cs[i].kind = "attempt" /\ IsErr(cs[i].val) /\ i < e.arity) =>
              i < Len(cs) /\ cs[i + 1].at = e.at
  /\ (/\ pc # "ready"
      /\ parser = oneOf(<<attempt(bangA), constant(Str(<<"z">>))>>)
      /\ source = <<"!", "b">>) =>
       pc = "returned" /\ result = Str(<<"z">>)

\* the attempted parser consumed input and then failed
C2_Witness ==
  \E n \in Returned("attempt") :
    LET e == Trace[n]
        c == Calls(e)[1]
    IN IsErr(c.val) /\ c.out > e.at /\ e.out = e.at

(***************************************************************************)
(* C3: when every alternative of oneOf fails without changing the offset,  *)
(* oneOf returns a OneOfErr whose errors are the alternatives' failures,   *)
(* one each, in the order tried, and whose offset is the offset at which   *)
(* the alternation began.                                                  *)
(***************************************************************************)
AllFailedInPlace(e, cs) ==
  /\ Len(cs) = e.arity
  /\ \A i \in 1..Len(cs) : IsErr(cs[i].val) /\ cs[i].out = e.at

C3_OneOfErrAggregates ==
  \A n \in Returned("oneOf") :
    LET e == Trace[n]
        cs == Calls(e)
    IN AllFailedInPlace(e, cs) =>
         /\ e.val.t = "OneOfErr"
         /\ e.val.errors = [i \in 1..e.arity |-> cs[i].val]
         /\ e.val.offset = e.at
         /\ e.out = e.at

\* an alternation of several parsers, entered past the start of the source,
\* all of which failed in place
C3_Witness ==
  \E n \in Returned("oneOf") :
    LET e == Trace[n] IN
    /\ e.arity >= 2 /\ e.at > 0
    /\ AllFailedInPlace(e, Calls(e))
    /\ e.val.t = "OneOfErr" /\ Len(e.val.errors) = e.arity

(***************************************************************************)
(* C4: seq runs its parsers left to right on the one context; at the first *)
(* parser that fails it returns that failure at once: no later parser is   *)
(* run, the map callback is not called, and the offset stays where the     *)
(* failing parser left it (nothing the earlier parsers consumed is given   *)
(* back).                                                                  *)
(***************************************************************************)
C4_SeqStopsAtFirstFailure ==
  /\ \A n \in Returned("seq") :
       LET e == Trace[n]
           cs == Calls(e)
       IN /\ InOrder(cs)
          /\ Threaded(e, cs)
          /\ Len(cs) <= e.arity
          /\ \A i \in 1..(Len(cs) - 1) : ~IsErr(cs[i].val)
          /\ IF Len(cs) > 0 /\ IsErr(Last(cs).val)
             THEN /\ SameVal(e.val, Last(cs).val)
                  /\ e.out = Last(cs).out
                  /\ Len(Callbacks(e)) = 0
             ELSE /\ Len(cs) = e.arity
                  /\ Len(Callbacks(e)) = 1
                  /\ SameVal(e.val, Callbacks(e)[1].val)
  /\ (pc # "ready" /\ parser = seq("$1", <<match(ReA), end>>) /\ source = <<"a", "b">>) =>
       /\ result.t = "ParseError" /\ result.error.offset = 1
       /\ context.offset = 1

\* a seq whose first parser consumed input and whose second parser failed,
\* with a third parser left
C4_Witness ==
  \E n \in Returned("seq") :
    LET e == Trace[n]
        cs == Calls(e)
    IN /\ Len(cs) = 2 /\ e.arity = 3
       /\ cs[1].out > cs[1].at
       /\ IsErr(cs[2].val)
       /\ e.out > e.at

(***************************************************************************)
(* C5: a Failure a call returns is recorded at an offset not before the    *)
(* offset the call was entered at; it carries the context offset of the    *)
(* instant it was created, and a caller that passes it on after rolling    *)
(* the offset back (attempt, oneOf) passes it on unchanged.                *)
(***************************************************************************)
\* call e made its failure itself: it called nothing that failed last, or it
\* is a oneOf all of whose alternatives failed in place
CreatedBy(e) ==
  \/ Len(Callees(e)) = 0
  \/ ~IsErr(Last(Callees(e)).val)
  \/ e.kind = "oneOf" /\ AllFailedInPlace(e, Calls(e))

C5_FailureOffset ==
  /\ \A n \in 1..Len(Trace) :
       LET e == Trace[n] IN
       IsErr(e.val) =>
         /\ e.kind # "callback" => e.val.offset >= e.at
         /\ IF CreatedBy(e)
            THEN e.val.offset = e.out
            ELSE SameVal(e.val, Last(Callees(e)).val)
  /\ (pc # "ready" /\ parser = attempt(aThenB) /\ source = <<"a", "1">>) =>
       /\ result.t = "ParseError" /\ result.error.offset = 1
       /\ context.offset = 0

\* a failure created past the entry offset of an attempt that then rolled
\* the offset back
C5_Witness ==
  \E n \in Returned("attempt") :
    LET e == Trace[n] IN
    IsErr(e.val) /\ e.val.offset > e.at /\ e.out = e.at

(***************************************************************************)
(* C6: many(p) collects the values of the successive runs of p that        *)
(* succeed and advance the offset; it stops and succeeds with the values   *)
(* collected so far at the first run of p that leaves the offset unchanged *)
(* (a failure or a zero-width success); a run of p that fails after        *)
(* advancing the offset makes many return that failure.                    *)
(***************************************************************************)
\* the runs of the item made by the many (index.ts) called at path: the item
\* under assertConsumed, then those of the many that lazy calls
RECURSIVE ItemRunsFrom(_)
ItemRunsFrom(path) ==
  IF HasEntry(path \o <<1, 1, 1>>)
  THEN <<EntryAt(path \o <<1, 1, 1>>)>> \o
       (IF HasEntry(path \o <<1, 2, 1>>)
        THEN ItemRunsFrom(path \o <<1, 2, 1>>)
        ELSE <<>>)
  ELSE <<>>

\* the runs of the item made by the many call e, in order
ItemRuns(e) == IF e.kind = "manyR2" THEN Calls(e) ELSE ItemRunsFrom(e.path)

C6_ManyCollects ==
  /\ \A n \in ReturnedBy("many") :
       LET e == Trace[n]
           runs == ItemRuns(e)
           last == Last(runs)
       IN /\ Len(runs) > 0
          /\ Threaded(e, runs)
          /\ \A i \in 1..(Len(runs) - 1) :
               ~IsErr(runs[i].val) /\ runs[i].out > runs[i].at
          /\ IF last.out = last.at
             THEN /\ e.val = List([i \in 1..(Len(runs) - 1) |-> runs[i].val])
                  /\ e.out = last.at
             ELSE /\ IsErr(last.val)
                  /\ SameVal(e.val, last.val)
                  /\ e.out = last.out
  /\ (pc # "ready" /\ source = <<"a", "1">>) =>
       /\ parser \in {many(aThenB), manyR2(aThenB)} =>
            result.t = "ParseError" /\ result.error.offset = 1
       /\ parser \in {many(attempt(aThenB)), manyR2(attempt(aThenB))} =>
            result = List(<<>>)

\* a many that collected a value and then met a run that failed after
\* advancing
C6_Witness ==
  \E n \in ReturnedBy("many") :
    LET runs == ItemRuns(Trace[n]) IN
    /\ Len(runs) >= 2
    /\ IsErr(Last(runs).val) /\ Last(runs).out > Last(runs).at
    /\ IsErr(Trace[n].val)

(***************************************************************************)
(* C7: run(many(item), source) comes to an end, with a list or a failure,  *)
(* for every item, also one that succeeds without consuming input; many of *)
(* a match of ".*" yields the whole source as its one element.             *)
(***************************************************************************)
ManyDone == pc \in {"returned", "threw"}

C7_ManyTerminates ==
  /\ <>ManyDone
  /\ [](/\ ManyDone
        /\ parser \in {many(match(ReAny)), manyR2(match(ReAny))}
        /\ source = <<"a", "b", "1">>
        => pc = "returned" /\ result = List(<<Str(source)>>))

\* many has ended after a run of the item that succeeded on the empty string
C7_Witness ==
  /\ pc = "returned"
  /\ Len(result.v) >= 1
  /\ LET item == IF parser.kind = "manyR2" THEN parser.ps[1]
                 ELSE parser.ps[1].ps[1].ps[1]
         r == Invoke(item, source, context, <<1>>)
     IN ~IsErr(r.val) /\ r.ctx.offset = context.offset

\* followed step by step, run(many(item), source) ends as the call taken
\* whole does
SteppingAgrees ==
  ManyDone =>
    LET r == Invoke(parser, source, Context, <<>>) IN
    /\ context.offset = r.ctx.offset
    /\ IF IsErr(r.val) THEN result = ParseError(source, r.val)
       ELSE result = r.val

(***************************************************************************)
(* Reading the separated lists out of the call history.                    *)
(***************************************************************************)
Front(s) == SubSeq(s, 1, Len(s) - 1)

IsPrefix(p, q) == Len(p) <= Len(q) /\ SubSeq(q, 1, Len(p)) = p

\* the calls of sepBy, sepBy1, sepUntil and sepUntil1 that returned
ListCalls(names) ==
  {n \in 1..Len(Trace) : Trace[n].by \in names /\ ~IsAbrupt(Trace[n].val)}

\* c is a call of the separator after an item: the first call of nextItem,
\* an odd call of sepUntilTail, or the first call of the seq that manyUntil
\* repeats (the even calls of manyUntil; the odd ones are calls of end)
SeparatorRole(c) ==
  /\ c.kind # "callback"
  /\ Len(c.path) >= 1
  /\ HasEntry(Front(c.path))
  /\ LET p == EntryAt(Front(c.path)) IN
     \/ p.by = "nextItem" /\ Last(c.path) = 1
     \/ p.kind = "sepUntilTail" /\ Last(c.path) % 2 = 1
     \/ /\ p.kind = "seq" /\ p.by = "seq" /\ Last(c.path) = 1
        /\ Len(p.path) >= 1
        /\ Last(p.path) % 2 = 0
        /\ HasEntry(Front(p.path))
        /\ EntryAt(Front(p.path)).kind = "manyUntil"

\* where the call of the item that follows separator call c is in the tree
ItemPathAfter(c) ==
  IF EntryAt(Front(c.path)).kind = "sepUntilTail"
  THEN Front(c.path) \o <<Last(c.path) + 1, 1>>
  ELSE Front(c.path) \o <<2>>

\* in list call e the separator call c matched and the item after it failed
Dangling(e, c) ==
  /\ IsPrefix(e.path, c.path)
  /\ SeparatorRole(c)
  /\ ~IsAbrupt(c.val) /\ ~IsErr(c.val)
  /\ HasEntry(ItemPathAfter(c))
  /\ IsErr(EntryAt(ItemPathAfter(c)).val)

\* call c made no call of attempt, itself included
NoAttemptIn(c) ==
  \A k \in 1..Len(Trace) :
    IsPrefix(c.path, Trace[k].path) => Trace[k].kind # "attempt"

FourLists == {"sepBy", "sepBy1", "sepUntil", "sepUntil1"}

(***************************************************************************)
(* C8 as the specification states it: in sepBy, sepBy1, sepUntil and       *)
(* sepUntil1, whenever the separator matches after an item and the item    *)
(* parser that follows fails, the list returns a failure, and when that    *)
(* item left the offset where it was the failure's offset is the offset    *)
(* just past the separator.                                                *)
(***************************************************************************)
C8_DanglingAlwaysFails ==
  \A n \in ListCalls(FourLists) : \A k \in 1..Len(Trace) :
    LET e == Trace[n]
        c == Trace[k]
    IN Dangling(e, c) =>
         LET item == EntryAt(ItemPathAfter(c)) IN
         /\ IsErr(e.val)
         /\ item.out = item.at => e.val.offset = c.out

(***************************************************************************)
(* C8: when the separator matches after an item and the item parser that   *)
(* follows fails, sepUntil and sepUntil1 always, and sepBy and sepBy1      *)
(* unless the separator matched the empty string and the item left the     *)
(* offset where it was, return the failure of that item and leave the      *)
(* offset where the item left it; the failure's offset is the offset just  *)
(* past the separator when the item failed without calling attempt and     *)
(* left the offset where it was.  In the excepted case sepBy and sepBy1    *)
(* end successfully at the offset before the separator.  sepBy of "," and  *)
(* int on "1," and on "1,a" fails at offset 2.                             *)
(***************************************************************************)
C8_DanglingSeparator ==
  /\ \A n \in ListCalls(FourLists) : \A k \in 1..Len(Trace) :
       LET e == Trace[n]
           c == Trace[k]
       IN Dangling(e, c) =>
            LET item == EntryAt(ItemPathAfter(c)) IN
            /\ item.at = c.out
            /\ IF /\ e.by \in {"sepBy", "sepBy1"}
                  /\ c.out = c.at
                  /\ item.out = item.at
               THEN ~IsErr(e.val) /\ e.out = c.at
               ELSE /\ SameVal(e.val, item.val)
                    /\ e.out = item.out
                    /\ e.val.offset >= c.out
                    /\ (NoAttemptIn(item) /\ item.out = item.at) =>
                         e.val.offset = c.out
  /\ (/\ pc # "ready"
      /\ parser \in {sepBy(symbol(<<",">>), digit),
                     sepByR2(symbol(<<",">>), digit)}
      /\ source \in {<<"1", ",">>, <<"1", ",", "a">>}) =>
       result.t = "ParseError" /\ result.error.offset = 2

\* a sepBy or sepBy1 failed with the failure of the item after a separator
\* that had consumed input
C8_Witness ==
  \E n \in ListCalls({"sepBy", "sepBy1"}) : \E k \in 1..Len(Trace) :
    /\ Dangling(Trace[n], Trace[k])
    /\ Trace[k].out > Trace[k].at
    /\ IsErr(Trace[n].val)
    /\ Trace[n].val.offset = Trace[k].out

(***************************************************************************)
(* C9: when the first run of the item fails and leaves the offset where it *)
(* was, sepBy succeeds with the empty list and the offset unchanged, and   *)
(* sepBy1 returns the failure of the item; when the first run of the item  *)
(* fails after advancing the offset, both return that failure.             *)
(***************************************************************************)
\* the first call of the item made by list call e: sepBy makes it from the
\* seq that is its first alternative, sepBy1 from its own seq
FirstItem(e) ==
  IF e.by = "sepBy" THEN EntryAt(e.path \o <<1, 1>>)
  ELSE EntryAt(e.path \o <<1>>)

C9_FirstItemFails ==
  \A n \in ListCalls({"sepBy", "sepBy1"}) :
    LET e == Trace[n]
        first == FirstItem(e)
    IN /\ first.at = e.at
       /\ IsErr(first.val) =>
            IF e.by = "sepBy" /\ first.out = first.at
            THEN e.val = List(<<>>) /\ e.out = e.at
            ELSE SameVal(e.val, first.val) /\ e.out = first.out

\* sepBy has returned the empty list on a source that its separator could
\* match, after its item failed in place
C9_Witness ==
  \E n \in ListCalls({"sepBy"}) :
    /\ IsErr(FirstItem(Trace[n]).val)
    /\ FirstItem(Trace[n]).out = Trace[n].at
    /\ Trace[n].val = List(<<>>)
    /\ Len(source) > 0

(***************************************************************************)
(* C10: sepBy and sepBy1 run the separator inside attempt; when it fails,  *)
(* also after consuming input, the list ends successfully with the items   *)
(* parsed so far and the offset is the one just after the last item.       *)
(* sepBy of the separator ",!" and int on "1,2" yields [1].                *)
(***************************************************************************)
\* the calls of the item made for list call e that returned a value
ItemValues(e) ==
  LET cs == SelectSeq(Trace, LAMBDA c :
              /\ IsPrefix(e.path, c.path)
              /\ c.kind # "callback"
              /\ ~IsErr(c.val)
              /\ \/ c.path = FirstItem(e).path
                 \/ /\ Len(c.path) >= 1
                    /\ Last(c.path) = 2
                    /\ HasEntry(Front(c.path))
                    /\ EntryAt(Front(c.path)).by = "nextItem")
  IN [i \in 1..Len(cs) |-> cs[i].val]

\* the calls of nextItem made for list call e whose separator failed
SeparatorFailed(e) ==
  {k \in 1..Len(Trace) :
     /\ Trace[k].by = "nextItem"
     /\ IsPrefix(e.path, Trace[k].path)
     /\ Len(Calls(Trace[k])) >= 1
     /\ IsErr(Calls(Trace[k])[1].val)}

C10_SeparatorAttempted ==
  /\ \A n \in ListCalls({"sepBy", "sepBy1"}) :
       LET e == Trace[n] IN
       \A k \in SeparatorFailed(e) :
         LET sep == Calls(Trace[k])[1] IN
         /\ sep.kind = "attempt"
         /\ sep.out = sep.at
         /\ Len(Calls(Trace[k])) = 1
         /\ e.val = List(ItemValues(e))
         /\ e.out = sep.at
  /\ (/\ pc # "ready"
      /\ parser \in {sepBy(commaBang, digit), sepByR2(commaBang, digit)}
      /\ source = <<"1", ",", "2">>) =>
       result = List(<<Num(1)>>) /\ context.offset = 1

\* a list has ended with its items after a separator that failed having
\* consumed input
C10_Witness ==
  \E n \in ListCalls({"sepBy", "sepBy1"}) :
    \E k \in SeparatorFailed(Trace[n]) :
      LET sep == Calls(Trace[k])[1]
          inner == Calls(sep)[1]
      IN /\ inner.out > inner.at
         /\ sep.out = sep.at
         /\ Trace[n].val.t = "array"
         /\ Len(Trace[n].val.v) >= 1

(***************************************************************************)
(* C11: manyUntil, sepUntil and sepUntil1 return a list only when the call *)
(* of the end parser matched and was their last step, and the offset is    *)
(* then where end left it; in every other case in which they return, they  *)
(* return a failure.  sepUntil of "!", "," and int fails on "" at 0, on    *)
(* "1" at 1 and on "1,2" at 3; manyUntil of "!" and int fails on "12," at  *)
(* 2.                                                                      *)
(***************************************************************************)
\* the last call made by manyUntil or sepUntilTail call t is the call of end,
\* and it matched: end is every odd call of manyUntil, and the call of
\* sepUntilTail that follows a failed separator
EndedLoop(t) ==
  LET cs == Calls(t) IN
  IF t.kind = "manyUntil"
  THEN /\ Len(cs) % 2 = 1
       /\ Last(Last(cs).path) = Len(cs)
       /\ ~IsErr(Last(cs).val)
       /\ t.out = Last(cs).out
  ELSE /\ Len(cs) >= 2
       /\ IsErr(cs[Len(cs) - 1].val)
       /\ Last(cs[Len(cs) - 1].path) % 2 = 1
       /\ ~IsErr(Last(cs).val)
       /\ t.out = Last(cs).out

\* the same for sepUntil1, which runs the loop as the second parser of its
\* seq
EndedList1(e) ==
  /\ Len(Calls(e)) = 2
  /\ EndedLoop(Calls(e)[2])
  /\ e.out = Calls(e)[2].out

\* the same for sepUntil, which first tries end alone and then sepUntil1
EndedList(e) ==
  LET cs == Calls(e) IN
  \/ /\ Len(cs) = 1
     /\ ~IsErr(cs[1].val)
     /\ Len(Calls(cs[1])) = 1
     /\ Calls(cs[1])[1].at = e.at
     /\ ~IsErr(Calls(cs[1])[1].val)
     /\ e.out = Calls(cs[1])[1].out
  \/ /\ Len(cs) = 2
     /\ cs[2].by = "sepUntil1"
     /\ EndedList1(cs[2])
     /\ e.out = cs[2].out

EndMatchedLast(e) ==
  CASE e.by = "sepUntil" -> EndedList(e)
    [] e.by = "sepUntil1" -> EndedList1(e)
    [] OTHER -> EndedLoop(e)

UntilCalls ==
  {n \in 1..Len(Trace) :
     /\ \/ Trace[n].by \in {"sepUntil", "sepUntil1"}
        \/ Trace[n].kind \in {"manyUntil", "sepUntilTail"}
     /\ ~IsAbrupt(Trace[n].val)}

C11_ListOnlyAfterEnd ==
  /\ \A n \in UntilCalls :
       IF EndMatchedLast(Trace[n])
       THEN Trace[n].val.t = "array"
       ELSE IsErr(Trace[n].val)
  /\ (/\ pc # "ready"
      /\ parser \in {sepUntil(symbol(<<"!">>), symbol(<<",">>), digit),
                     sepUntilR2(symbol(<<"!">>), symbol(<<",">>), digit)}
      /\ source \in {<<>>, <<"1">>, <<"1", ",", "2">>}) =>
       result.t = "ParseError" /\ result.error.offset = Len(source)
  /\ (/\ pc # "ready"
      /\ parser = manyUntil(symbol(<<"!">>), digit)
      /\ source = <<"1", "2", ",">>) =>
       result.t = "ParseError" /\ result.error.offset = 2

\* a sepUntil or manyUntil that had collected an item has failed because
\* the source was exhausted before end matched
C11_Witness ==
  /\ \E n \in UntilCalls :
       /\ Trace[n].path = <<>>
       /\ IsErr(Trace[n].val)
       /\ Trace[n].out > Trace[n].at
       /\ Trace[n].val.offset = Len(source)
  /\ Len(source) >= 1

(***************************************************************************)
(* C12: in map and mapWithRange, when the callback returns the failure     *)
(* made by toError, that failure's offset is the offset at which map was   *)
(* entered and the context's offset is rolled back to it, so that an       *)
(* enclosing oneOf goes on to its next alternative; when the wrapped       *)
(* parser fails, the callback is not called and its failure is returned    *)
(* as it is.  int of "a" on "a" fails at offset 0.                         *)
(***************************************************************************)
MapCalls ==
  {n \in 1..Len(Trace) :
     Trace[n].kind \in {"map", "mapWithRange"} /\ ~IsAbrupt(Trace[n].val)}

C12_ToErrorRollsBack ==
  /\ \A n \in MapCalls :
       LET e == Trace[n]
           wrapped == Calls(e)[1]
           f == Callbacks(e)
       IN /\ Len(Calls(e)) = 1
          /\ IF IsErr(wrapped.val)
             THEN /\ f = <<>>
                  /\ SameVal(e.val, wrapped.val)
                  /\ e.out = wrapped.out
             ELSE /\ Len(f) = 1
                  /\ f[1].at = wrapped.out
                  /\ SameVal(e.val, f[1].val)
                  /\ IsErr(f[1].val) =>
                       /\ e.val.offset = e.at
                       /\ e.out = e.at
                       /\ \A k \in 1..Len(Trace) :
                            (/\ Trace[k].kind = "oneOf"
                             /\ IsChild(e, Trace[k])
                             /\ Trace[k].at = e.at
                             /\ Last(e.path) < Trace[k].arity) =>
                              HasEntry(Append(Front(e.path), Last(e.path) + 1))
  /\ (pc # "ready" /\ parser = int(ReA) /\ source = <<"a">>) =>
       result.t = "ParseError" /\ result.error.offset = 0

\* a callback has called toError after its parser had advanced, and the
\* oneOf around it has gone on
C12_Witness ==
  \E n \in MapCalls :
    LET e == Trace[n] IN
    /\ Calls(e)[1].out > e.at
    /\ Len(Callbacks(e)) = 1
    /\ IsErr(Callbacks(e)[1].val)
    /\ Len(e.path) >= 1
    /\ EntryAt(Front(e.path)).kind = "oneOf"
    /\ HasEntry(Append(Front(e.path), Last(e.path) + 1))

(***************************************************************************)
(* C13: an exception thrown by a callback of map, mapWithRange or seq, by  *)
(* a parser function, or by lazy when its supplier throws or returns       *)
(* nothing, is what run throws: every call that was running when it was    *)
(* thrown is left with that same exception, no call is made after it, and  *)
(* run throws it and not a ParseError.                                     *)
(***************************************************************************)
Thrown == {n \in 1..Len(Trace) : Trace[n].val.t = "exception"}

C13_ExceptionsEscape ==
  \A n \in Thrown :
    /\ \A k \in (n + 1)..Len(Trace) :
         /\ Trace[k].val.t = "exception"
         /\ Trace[k].val = Trace[n].val
         /\ Trace[k].kind # "callback"
         /\ IsPrefix(Trace[k].path, Trace[n].path)
    /\ Trace[Len(Trace)].path = <<>>
    /\ pc = "threw"
    /\ result.t = "exception"
    /\ result = Trace[n].val

\* an exception thrown under an attempt or a many inside a oneOf, after
\* input was consumed, has left run
C13_Witness ==
  \E n \in Thrown : \E k \in Thrown :
    /\ k > n
    /\ Trace[n].at > 0
    /\ Trace[k].kind \in {"attempt", "manyR2", "assertConsumed"}
    /\ Trace[Len(Trace)].kind = "oneOf" \/ Trace[Len(Trace)].by = "many"
    /\ pc = "threw"

(***************************************************************************)
(* C14: run starts the parser at offset 0 in the unnamed root scope; when  *)
(* the parser returns a value run returns it, whether or not the source    *)
(* was consumed to its end; when the parser returns a failure run throws a *)
(* ParseError whose offset is the offset recorded in that failure and      *)
(* whose position is calcPosition of the source and that offset.           *)
(***************************************************************************)
C14_Run ==
  (pc # "ready" /\ Len(Trace) > 0) =>
    LET root == Trace[Len(Trace)] IN
    /\ root.path = <<>>
    /\ root.at = 0
    /\ root.scope = <<[offset |-> 0, name |-> NullName]>>
    /\ \A n \in 1..Len(Trace) : Trace[n].at >= 0
    /\ ~IsAbrupt(root.val) =>
         IF IsErr(root.val)
         THEN /\ pc = "threw"
              /\ result.t = "ParseError"
              /\ ParseErrorOffset(result) = root.val.offset
              /\ ParseErrorPosition(result)
                   = calcPosition(source, root.val.offset)
              /\ result.source = source
         ELSE /\ pc = "returned"
              /\ SameVal(result, root.val)
              /\ context.offset = root.out

\* run has thrown a ParseError on the second line of the source, at an
\* offset past the one the context was left at
C14_Witness ==
  /\ pc = "threw"
  /\ result.t = "ParseError"
  /\ ParseErrorOffset(result) > context.offset
  /\ ParseErrorPosition(result).row = 2
  /\ ParseErrorPosition(result).column = 2

(***************************************************************************)
(* C15 as the specification states it: a parser that is run a second time  *)
(* on the same source ends as it did the first time, with an equal value   *)
(* or an equal ParseError, and leaves the same offset.                     *)
(***************************************************************************)
C15_SameEachTime ==
  earlier # <<>> =>
    /\ pc = earlier[1].pc
    /\ SameVal(result, earlier[1].result)
    /\ context.offset = earlier[1].offset


(***************************************************************************)
(* Reading the scopes out of the call history.                             *)
(***************************************************************************)
IsSuffix(p, q) ==
  Len(p) <= Len(q) /\ SubSeq(q, Len(q) - Len(p) + 1, Len(q)) = p

\* the calls made while call p ran, p included, that returned a failure
FailuresUnder(p) ==
  {k \in 1..Len(Trace) :
     /\ IsPrefix(p.path, Trace[k].path)
     /\ Trace[k].kind # "callback"
     /\ IsErr(Trace[k].val)}

\* a withContext was called while call p ran
NestsWithContext(p) ==
  \E k \in 1..Len(Trace) :
    IsPrefix(p.path, Trace[k].path) /\ Trace[k].kind = "withContext"

(***************************************************************************)
(* C16 as the specification states it: withContext(name, p) returns what p *)
(* returns and leaves the offset where p leaves it; the scope after it is  *)
(* the scope before it, whether p succeeded or failed; the scope chain of  *)
(* every failure created while p runs has at its head the scope of that    *)
(* name and of the offset at which withContext was entered.                *)
(***************************************************************************)
C16_HeadIsOwnScope ==
  \A n \in Returned("withContext") :
    LET e == Trace[n]
        p == Calls(e)[1]
    IN /\ SameVal(e.val, p.val) /\ e.out = p.out
       /\ e.left = e.scope
       /\ \A k \in FailuresUnder(p) :
            /\ Trace[k].val.scope[1].offset = e.at
            /\ Trace[k].val.scope[1] = p.scope[1]

(***************************************************************************)
(* C16: withContext(name, p) returns what p returns and leaves the offset  *)
(* where p leaves it; it runs p in the scope of that name and of the       *)
(* offset at entry, whose parent is the scope before; the scope after it   *)
(* is the scope before it, whether p succeeded or failed; the scope chain  *)
(* of every failure created while p runs ends with the chain p was run in, *)
(* and is that chain when p calls no withContext of its own.               *)
(***************************************************************************)
C16_WithContext ==
  /\ \A n \in Returned("withContext") :
       LET e == Trace[n]
           p == Calls(e)[1]
       IN /\ Len(Calls(e)) = 1
          /\ p.at = e.at
          /\ Tail(p.scope) = e.scope
          /\ p.scope[1].offset = e.at
          /\ p.scope[1].name # NullName
          /\ e.path = <<>> => p.scope[1].name = Str(parser.arg)
          /\ SameVal(e.val, p.val) /\ e.out = p.out
          /\ e.left = e.scope
          /\ \A k \in FailuresUnder(p) :
               /\ IsSuffix(p.scope, Trace[k].val.scope)
               /\ ~NestsWithContext(p) => Trace[k].val.scope = p.scope
  /\ pc # "ready" /\ Len(Trace) > 0 /\ ~IsAbrupt(Trace[Len(Trace)].val) =>
       context.scope = Scope(0, NullName, <<>>)

\* a withContext whose parser failed after advancing has returned that
\* failure, with the scope restored, and another parser has run after it
C16_Witness ==
  \E n \in Returned("withContext") :
    LET e == Trace[n] IN
    /\ IsErr(e.val)
    /\ e.val.offset > e.at
    /\ e.val.scope[1].name = Str("y")
    /\ e.left = e.scope
    /\ Len(e.path) >= 1

(***************************************************************************)
(* C17: whenever match, expectString (symbol, keyword), stringBefore,      *)
(* stringUntil or end returns a failure, the offset is the one at which    *)
(* the primitive was entered and the failure's offset is that offset.      *)
(***************************************************************************)
FailingPrimitives ==
  {"match", "expectString", "stringBefore", "stringUntil", "end"}

C17_FailuresDoNotAdvance ==
  \A n \in 1..Len(Trace) :
    LET e == Trace[n] IN
    (e.kind \in FailingPrimitives /\ IsErr(e.val)) =>
      /\ e.out = e.at
      /\ e.val.offset = e.at
      /\ e.val.t = "Err"
      /\ e.left = e.scope

\* a scanning primitive entered past the start of the source has failed
C17_Witness ==
  \E n \in 1..Len(Trace) :
    /\ Trace[n].kind \in {"stringBefore", "stringUntil"}
    /\ IsErr(Trace[n].val)
    /\ Trace[n].at = 1
    /\ Len(source) = 3

(***************************************************************************)
(* C18: stringBefore(p) and stringUntil(p) both return the text between    *)
(* the current offset and the start of the next occurrence of p at or      *)
(* after the current offset; stringBefore leaves the offset at the start   *)
(* of that occurrence and stringUntil leaves it just past its end.         *)
(* seq(stringBefore("a"), match("ab")) succeeds on "ab", and               *)
(* seq(stringUntil("a"), match("ab")) on "ab" fails at offset 1.           *)
(***************************************************************************)
\* the parser of the grammar whose call is at path (seq and oneOf number
\* their calls as they number their parsers)
RECURSIVE ParserAt(_, _)
ParserAt(p, path) ==
  IF path = <<>> THEN p ELSE ParserAt(p.ps[Head(path)], Tail(path))

\* where an occurrence of regexp that starts at i ends, -1 if there is none
OccurrenceEnd(regexp, i) == MatchAtoms(regexp.atoms, 1, source, i, FALSE)

\* the start of the next occurrence of regexp at or after from, -1 if none
NextOccurrence(regexp, from) ==
  LET starts == {i \in from..Len(source) : OccurrenceEnd(regexp, i) # -1} IN
  IF starts = {} THEN -1
  ELSE CHOOSE i \in starts : \A j \in starts : i <= j

IsScanOf(p, kind, src, then) ==
  /\ p.kind = "seq"
  /\ Len(p.ps) = 2
  /\ p.ps[1].kind = kind
  /\ p.ps[1].arg.src = src
  /\ p.ps[2].kind = "match"
  /\ p.ps[2].arg.src = then

C18_BeforeAndUntil ==
  /\ \A n \in 1..Len(Trace) :
       LET e == Trace[n] IN
       e.kind \in {"stringBefore", "stringUntil"} =>
         LET regexp == ParserAt(parser, e.path).arg
             start == NextOccurrence(regexp, e.at)
         IN IF start = -1
            THEN IsErr(e.val)
            ELSE /\ SameVal(e.val, Str(Slice(source, e.at, start)))
                 /\ e.kind = "stringBefore" => e.out = start
                 /\ e.kind = "stringUntil" =>
                      e.out = OccurrenceEnd(regexp, start)
  /\ (pc # "ready" /\ source = <<"a", "b">>) =>
       /\ IsScanOf(parser, "stringBefore", "a", "ab") => pc = "returned"
       /\ IsScanOf(parser, "stringUntil", "a", "ab") =>
            /\ pc = "threw"
            /\ ParseErrorOffset(result) = 1

\* stringUntil has returned one character and gone past an occurrence that
\* is two characters long
C18_Witness ==
  \E n \in 1..Len(Trace) :
    /\ Trace[n].kind = "stringUntil"
    /\ Trace[n].at = 0
    /\ Trace[n].out = 3
    /\ SameVal(Trace[n].val, Str(<<source[1]>>))

(***************************************************************************)
(* C19, as stated: stringBefore and stringBeforeEndOr return everything up *)
(* to the next occurrence of the pattern, and the value stringUntil        *)
(* returns goes through that occurrence and includes it; stringBeforeEndOr *)
(* never returns a failure, and when the pattern does not occur at or      *)
(* after the current offset it returns the rest of the source and leaves   *)
(* the offset equal to source.length.                                      *)
(***************************************************************************)
ScanKinds == {"stringBefore", "stringUntil", "stringBeforeEndOr"}

\* the text a scanning call returns when its value stops at offset to
ScanReturns(e, to) == SameVal(e.val, Str(Slice(source, e.at, to)))

EndOrFallsBack(e, start) ==
  e.kind = "stringBeforeEndOr" =>
    /\ ~IsErr(e.val)
    /\ start = -1 => (ScanReturns(e, Len(source)) /\ e.out = Len(source))
    /\ start # -1 => (ScanReturns(e, start) /\ e.out = start)

C19_UntilIncludesOccurrence ==
  \A n \in 1..Len(Trace) :
    LET e == Trace[n] IN
    e.kind \in ScanKinds =>
      LET regexp == ParserAt(parser, e.path).arg
          start == NextOccurrence(regexp, e.at)
      IN /\ EndOrFallsBack(e, start)
         /\ (e.kind = "stringBefore" /\ start # -1) => ScanReturns(e, start)
         /\ (e.kind = "stringUntil" /\ start # -1) =>
              ScanReturns(e, OccurrenceEnd(regexp, start))

(***************************************************************************)
(* C19, amended: all three scanning primitives return the text up to the   *)
(* start of the next occurrence of the pattern, without the occurrence;    *)
(* stringUntil differs from stringBefore only in the offset, which it      *)
(* leaves past the occurrence.  stringBeforeEndOr never returns a failure: *)
(* when the pattern does not occur at or after the current offset it       *)
(* returns the rest of the source and leaves the offset at source.length.  *)
(***************************************************************************)
C19_ScanExcludesOccurrence ==
  \A n \in 1..Len(Trace) :
    LET e == Trace[n] IN
    e.kind \in ScanKinds =>
      LET regexp == ParserAt(parser, e.path).arg
          start == NextOccurrence(regexp, e.at)
      IN /\ EndOrFallsBack(e, start)
         /\ (e.kind \in {"stringBefore", "stringUntil"} /\ start # -1) =>
              /\ ScanReturns(e, start)
              /\ Len(e.val.v) = start - e.at
         /\ (e.kind = "stringUntil" /\ start # -1) =>
              /\ e.out = OccurrenceEnd(regexp, start)
              /\ e.out > e.at + Len(e.val.v)

\* in one run stringUntil has returned the character before an occurrence
\* it went past, and stringBeforeEndOr, finding no occurrence after it, has
\* returned the rest of the source
C19_Witness ==
  \E n, k \in 1..Len(Trace) :
    /\ Trace[n].kind = "stringUntil"
    /\ Trace[n].at = 0
    /\ Trace[n].out = 2
    /\ SameVal(Trace[n].val, Str(<<source[1]>>))
    /\ Trace[k].kind = "stringBeforeEndOr"
    /\ Trace[k].at = 2
    /\ Trace[k].out = 3
    /\ Len(source) = 3
    /\ SameVal(Trace[k].val, Str(<<source[3]>>))
    /\ NextOccurrence(ParserAt(parser, Trace[k].path).arg, 2) = -1

(***************************************************************************)
(* C20: end succeeds if and only if the offset equals source.length, and   *)
(* it never changes the offset; it succeeds on the empty source and fails  *)
(* at offset 0 on a source of one character.                               *)
(***************************************************************************)
C20_End ==
  /\ \A n \in 1..Len(Trace) :
       LET e == Trace[n] IN
       e.kind = "end" =>
         /\ ~IsAbrupt(e.val)
         /\ IsErr(e.val) <=> e.at # Len(source)
         /\ ~IsErr(e.val) => SameVal(e.val, Null)
         /\ e.out = e.at
  /\ (pc # "ready" /\ parser.kind = "end") =>
       /\ Len(source) = 0 => pc = "returned"
       /\ Len(source) = 1 =>
            /\ pc = "threw"
            /\ ParseErrorOffset(result) = 0

\* in one run end has failed with one character left and then succeeded at
\* the end of the source
C20_Witness ==
  \E n, k \in 1..Len(Trace) :
    /\ n < k
    /\ Trace[n].kind = "end"
    /\ IsErr(Trace[n].val)
    /\ Trace[n].at = Len(source) - 1
    /\ Trace[k].kind = "end"
    /\ ~IsErr(Trace[k].val)
    /\ Trace[k].at = Len(source)
    /\ Trace[k].at > 0

(***************************************************************************)
(* calcPosition on its own: a source of several lines and an offset in it. *)
(***************************************************************************)
MaxPosLen == 5

PosAlphabet == <<"a", "b", "c", "d", "\n", " ">>

RECURSIVE PosSeqsUpTo(_)
PosSeqsUpTo(n) ==
  IF n = 0 THEN {<<>>}
  ELSE LET shorter == PosSeqsUpTo(n - 1) IN
       shorter \cup {Append(s, PosAlphabet[i]) :
                       s \in shorter, i \in 1..Len(PosAlphabet)}

PosSources == PosSeqsUpTo(MaxPosLen)

InitPos ==
  /\ source \in PosSources
  /\ parser = end
  /\ context = Context
  /\ result = Undefined
  /\ pc = "ready"
  /\ items = <<>>
  /\ frames = <<>>
  /\ earlier = <<>>

\* calcPosition(source, offset)
Locate ==
  /\ pc = "ready"
  /\ \E offset \in 0..Len(source) :
       result' = [t |-> "Position", offset |-> offset,
                  position |-> calcPosition(source, offset)]
  /\ pc' = "located"
  /\ UNCHANGED <<source, parser, context, items, frames, earlier>>

NextPos == Locate

SpecPos == InitPos /\ [][NextPos]_vars

(***************************************************************************)
(* C21: calcPosition(source, offset), for 0 <= offset <= source.length,    *)
(* returns row = 1 + the number of newline characters among the characters *)
(* of the source up to and including the one at offset, and column = the   *)
(* number of characters after the last of those newlines, up to and        *)
(* including the one at offset, the source being taken as if one space     *)
(* followed it.  calcPosition("ab\ncd", 4) is {2, 2}, calcPosition("", 0)  *)
(* is {1, 1} and calcPosition(" ", 1) is {1, 2}.                           *)
(***************************************************************************)
\* the places, counted from 1, of the newlines up to the character at offset
NewlinesUpTo(offset) ==
  {i \in 1..Len(source) : i <= offset + 1 /\ source[i] = "\n"}

LastOf(places) ==
  IF places = {} THEN 0 ELSE CHOOSE i \in places : \A j \in places : j <= i

C21_CalcPosition ==
  pc = "located" =>
    /\ result.position.row = 1 + Cardinality(NewlinesUpTo(result.offset))
    /\ result.position.column
         = (result.offset + 1) - LastOf(NewlinesUpTo(result.offset))
    /\ (source = <<"a", "b", "\n", "c", "d">> /\ result.offset = 4) =>
         result.position = [row |-> 2, column |-> 2]
    /\ source = <<>> => result.position = [row |-> 1, column |-> 1]
    /\ (source = <<" ">> /\ result.offset = 1) =>
         result.position = [row |-> 1, column |-> 2]

\* the position of the d of "ab\ncd" has been computed
C21_Witness ==
  /\ pc = "located"
  /\ source = <<"a", "b", "\n", "c", "d">>
  /\ result.offset = 4
  /\ result.position.row = 2

(***************************************************************************)
(* C22: positions are 1-based: for every source and every offset with      *)
(* 0 <= offset <= source.length the position calcPosition computes has     *)
(* row >= 1 and column >= 1.                                               *)
(***************************************************************************)
C22_OneBased ==
  pc = "located" =>
    /\ result.position.row >= 1
    /\ result.position.column >= 1

(***************************************************************************)
(* C23: whenever the wrapped parser succeeds, mapWithRange passes to f the *)
(* Range whose start is calcPosition(source, offset before the wrapped     *)
(* parser ran) and whose end is calcPosition(source, offset after it ran   *)
(* minus 1); match(".*") on "a\nb" gives start {1, 1} and end {2, 1}.      *)
(***************************************************************************)
\* the range f was given, seen in what f returned: the range itself or the
\* pair [value, range]
RangeSeen(val) ==
  IF val.t = "range" THEN <<val>>
  ELSE IF val.t = "array" /\ Len(val.v) = 2 /\ val.v[2].t = "range"
       THEN <<val.v[2]>>
       ELSE <<>>

C23_Range ==
  /\ \A n \in 1..Len(Trace) :
       LET e == Trace[n] IN
       (e.kind = "mapWithRange" /\ ~IsAbrupt(e.val)) =>
         LET wrapped == Calls(e)[1] IN
         /\ Len(Calls(e)) = 1
         /\ wrapped.at = e.at
         /\ Len(Callbacks(e)) = IF IsErr(wrapped.val) THEN 0 ELSE 1
         /\ \A k \in 1..Len(Callbacks(e)) :
              \A i \in 1..Len(RangeSeen(Callbacks(e)[k].val)) :
                LET range == RangeSeen(Callbacks(e)[k].val)[i] IN
                /\ range.start = calcPosition(source, wrapped.at)
                /\ range.end = calcPosition(source, wrapped.out - 1)
  /\ (pc = "returned" /\ source = <<"a", "\n", "b">>
        /\ parser.kind = "mapWithRange" /\ parser.arg = "pair") =>
       /\ SameVal(result.v[1], Str(source))
       /\ result.v[2].start = [row |-> 1, column |-> 1]
       /\ result.v[2].end = [row |-> 2, column |-> 1]

\* f has been given the range of a text of two characters that starts at
\* the second character of the source
C23_Witness ==
  \E n \in 1..Len(Trace) :
    /\ Trace[n].kind = "mapWithRange"
    /\ Trace[n].at = 1
    /\ Trace[n].out = 3
    /\ Len(Callbacks(Trace[n])) = 1
    /\ RangeSeen(Callbacks(Trace[n])[1].val)
         = <<Range([row |-> 1, column |-> 2], [row |-> 1, column |-> 3])>>

(***************************************************************************)
(* C24: guard(guarder, p): if guarder succeeds, its value is the result    *)
(* and p is not run; if guarder fails, its failure is discarded and the    *)
(* result is exactly what p returns, p being run from the offset guarder   *)
(* left behind, with no rollback.                                          *)
(* guard(seq($1, match("a"), match("a")), match("ab")) on "ab" fails at    *)
(* offset 1.                                                               *)
(***************************************************************************)
C24_Guard ==
  /\ \A n \in Returned("guard") :
       LET e == Trace[n]
           cs == Calls(e)
       IN /\ Len(cs) >= 1
          /\ InOrder(cs)
          /\ Threaded(e, cs)
          /\ Len(cs) = IF IsErr(cs[1].val) THEN 2 ELSE 1
          /\ SameVal(e.val, Last(cs).val)
          /\ e.out = Last(cs).out
          /\ Callbacks(e) = <<>>
  /\ (pc # "ready" /\ source = <<"a", "b">> /\ parser.kind = "guard"
        /\ parser.ps[1].kind = "seq" /\ parser.ps[2].arg.src = "ab") =>
       /\ pc = "threw"
       /\ ParseErrorOffset(result) = 1

\* the guarder has failed after consuming a character and p, run from where
\* the guarder stopped, has succeeded
C24_Witness ==
  \E n \in Returned("guard") :
    LET cs == Calls(Trace[n]) IN
    /\ Len(cs) = 2
    /\ cs[1].at = 1
    /\ cs[1].out = 2
    /\ IsErr(cs[1].val)
    /\ cs[2].at = 2
    /\ cs[2].out = 3
    /\ ~IsErr(Trace[n].val)

(***************************************************************************)
(* C25: ParseError.explain() lists the named scopes that were active when  *)
(* the terminal failure was created, innermost first and outermost last,   *)
(* each with the row:column of the offset at which that scope was entered; *)
(* the unnamed root scope is not listed.                                   *)
(***************************************************************************)
\* the lines of the explained text that belong to part
Part(part) == SelectSeq(result.text, LAMBDA line : line.part = part)

\* the scopes of the explained failure but the unnamed one, innermost first
NamedScopes ==
  SelectSeq(result.error.error.scope, LAMBDA scope : scope.name # NullName)

\* row:column of an offset, as printed (rows and columns below 10)
Printed(offset) ==
  LET pos == calcPosition(source, offset) IN
  <<DigitChars[pos.row + 1], ":", DigitChars[pos.column + 1]>>

C25_ExplainListsScopes ==
  pc = "explained" =>
    LET listed == Part("scope")
        n == Len(result.text)
    IN /\ Len(listed) = Len(NamedScopes)
       /\ Len(NamedScopes) = Len(result.error.error.scope) - 1
       /\ Last(result.error.error.scope).name = NullName
       /\ \A i \in 1..Len(listed) :
            /\ result.text[n - Len(listed) + i].part = "scope"
            /\ result.text[n - Len(listed) + i].text = listed[i].text
            /\ listed[i].text
                 = <<"    at ", NamedScopes[i].name.v, " (">>
                   \o Printed(NamedScopes[i].offset) \o <<") ">>
       /\ \A i, j \in 1..Len(NamedScopes) :
            i < j => NamedScopes[i].offset >= NamedScopes[j].offset
       /\ \E k \in 1..Len(Trace) :
            /\ IsErr(Trace[k].val)
            /\ Trace[k].val = result.error.error
            /\ IsSuffix(Trace[k].scope, result.error.error.scope)

\* the text lists the scope y, entered on the second line, above the scope
\* x, entered on the first, for a failure inside both
C25_Witness ==
  /\ pc = "explained"
  /\ Len(Part("scope")) = 2
  /\ Part("scope")[1].text = <<"    at ", "y", " (", "2", ":", "1", ") ">>
  /\ Part("scope")[2].text = <<"    at ", "x", " (", "1", ":", "1", ") ">>

(***************************************************************************)
(* C26, as stated: the source excerpt printed by ParseError.explain()      *)
(* consists of the source lines from the row of the outermost enclosing    *)
(* scope's start position through the row of the failure position, one     *)
(* line per row, each prefixed with its line number.                       *)
(***************************************************************************)
\* the place, counted from 1, of the n-th newline of the source; 0 for
\* n = 0 and one past the end of the source when there is no n-th newline
NewlineAt(n) ==
  LET places == {i \in 1..Len(source) :
                   /\ source[i] = "\n"
                   /\ Cardinality({j \in 1..i : source[j] = "\n"}) = n}
  IN IF n = 0 THEN 0
     ELSE IF places = {} THEN Len(source) + 1
          ELSE CHOOSE i \in places : TRUE

\* the text of row r of the source
RowText(r) == SubSeq(source, NewlineAt(r - 1) + 1, NewlineAt(r) - 1)

\* the line the excerpt prints for row r (rows below 10)
ExcerptLine(r) ==
  <<" ", " ", " ", " ", DigitChars[r + 1], "|", " ">> \o RowText(r)

\* the excerpt is the rows first..last of the source, and stands in the text
\* between the empty line and the line of the caret
ExcerptIs(first, last) ==
  LET excerpt == Part("source")
      before == Len(Part("message")) + Len(Part("sub")) + Len(Part("blank"))
  IN /\ Len(excerpt) = IF last >= first THEN last - first + 1 ELSE 0
     /\ \A i \in 1..Len(excerpt) :
          /\ excerpt[i].text = ExcerptLine(first + i - 1)
          /\ result.text[before + i].part = "source"
     /\ result.text[before].part = "blank"
     /\ result.text[before + Len(excerpt) + 1].part = "caret"

FailureRow == calcPosition(source, result.error.error.offset).row

\* the outermost scope with a name around the failure; the root scope when
\* no scope with a name is around it
OutermostScope ==
  IF NamedScopes = <<>> THEN Last(result.error.error.scope)
  ELSE Last(NamedScopes)

C26_ExcerptFromOutermost ==
  pc = "explained" =>
    ExcerptIs(calcPosition(source, OutermostScope.offset).row, FailureRow)

(***************************************************************************)
(* C26, amended: the excerpt consists of the source lines from the row of  *)
(* the start position of the innermost enclosing scope, the scope the      *)
(* failure recorded (the root scope, entered at offset 0, when no named    *)
(* scope is active), through the row of the failure position, one line per *)
(* row, each prefixed with its line number.                                *)
(***************************************************************************)
InnermostScope == result.error.error.scope[1]

C26_ExcerptFromInnermost ==
  pc = "explained" =>
    /\ ExcerptIs(calcPosition(source, InnermostScope.offset).row, FailureRow)
    /\ calcPosition(source, InnermostScope.offset).row <= FailureRow

\* a failure on the second line inside a scope entered on the second line,
\* itself inside a scope entered on the first: the excerpt is the second
\* line alone
C26_Witness ==
  /\ pc = "explained"
  /\ Len(source) = 3
  /\ Len(NamedScopes) = 2
  /\ calcPosition(source, NamedScopes[1].offset) = [row |-> 2, column |-> 1]
  /\ calcPosition(source, NamedScopes[2].offset).row = 1
  /\ FailureRow = 2
  /\ Len(Part("source")) = 1
  /\ Part("source")[1].text = <<" ", " ", " ", " ", "2", "|", " ", source[3]>>

(***************************************************************************)
(* C27: in manyUntil, sepUntil and sepUntil1 the end parser is checked     *)
(* without consuming on failure: whenever a run of the end parser inside   *)
(* the loop returns a failure, the offset is the same as before that run,  *)
(* so the item or separator tried next starts at the offset where end was  *)
(* tried.                                                                  *)
(***************************************************************************)
\* c is a run of the end parser in the loop e: an odd call of manyUntil, or
\* the call sepUntilTail makes after its separator failed
IsEndRun(e, c) ==
  /\ IsChild(c, e)
  /\ c.kind # "callback"
  /\ \/ e.kind = "manyUntil" /\ Last(c.path) % 2 = 1
     \/ /\ e.kind = "sepUntilTail"
        /\ Last(c.path) % 2 = 0
        /\ IsErr(EntryAt(Append(e.path, Last(c.path) - 1)).val)

C27_EndDoesNotConsume ==
  \A n \in 1..Len(Trace) :
    LET e == Trace[n] IN
    e.kind \in {"manyUntil", "sepUntilTail"} =>
      \A k \in 1..Len(Trace) :
        LET c == Trace[k] IN
        (IsEndRun(e, c) /\ IsErr(c.val)) =>
          /\ c.out = c.at
          /\ \A j \in 1..Len(Trace) :
               (IsChild(Trace[j], e) /\ Last(Trace[j].path) = Last(c.path) + 1)
                 => Trace[j].at = c.at

(***************************************************************************)
(* C28: in sepUntil and sepUntil1, at every position reached after an item *)
(* the end parser has priority: if end matches at that offset the list     *)
(* terminates successfully there and the separator is not attempted, even  *)
(* when the separator would also match at that offset.                     *)
(***************************************************************************)
\* for a run of sepUntil or sepUntil1: where its sepUntil1 is called, its
\* loop (sepUntilTail or manyUntil) and its end parser
List1Path == IF parser.by = "sepUntil" THEN <<2>> ELSE <<>>

LoopParser ==
  IF parser.by = "sepUntil" THEN parser.ps[2].ps[2] ELSE parser.ps[2]

EndParser == LoopParser.ps[1]

\* c is a call of the item parser that returned a value: the first item, or
\* an item of the loop (in sepUntilTail the even calls that follow a
\* separator that matched, in manyUntil the even calls)
IsItemCall(c) ==
  /\ c.kind # "callback"
  /\ ~IsAbrupt(c.val) /\ ~IsErr(c.val)
  /\ \/ c.path = Append(List1Path, 1)
     \/ /\ Len(c.path) = Len(List1Path) + 2
        /\ Front(c.path) = Append(List1Path, 2)
        /\ Last(c.path) % 2 = 0
        /\ LoopParser.kind = "sepUntilTail" =>
             ~IsErr(EntryAt(Append(Front(c.path), Last(c.path) - 1)).val)

\* end, called at offset, would match
EndMatchesAt(offset) ==
  LET ended == Invoke(EndParser, source, [Context EXCEPT !.offset = offset],
                      <<>>)
  IN ~IsAbrupt(ended.val) /\ ~IsErr(ended.val)

C28_EndHasPriority ==
  (pc # "ready" /\ parser.by \in {"sepUntil", "sepUntil1"}) =>
    \A k \in 1..Len(Trace) :
      (IsItemCall(Trace[k]) /\ EndMatchesAt(Trace[k].out)) =>
        /\ pc = "returned"
        /\ result.t = "array"
        /\ Len(result.v) >= 1
        /\ SameVal(Last(result.v), Trace[k].val)
        /\ \A j \in (k + 1)..Len(Trace) :
             ~(SeparatorRole(Trace[j]) /\ Trace[j].at = Trace[k].out)

(***************************************************************************)
(* C29: manyUntil(end, item), and the tail loop of sepUntil and sepUntil1, *)
(* come to an end on every source, with a list or a failure, for every end *)
(* and item parser that themselves come to an end, also when item can      *)
(* succeed without consuming input and end never matches, as               *)
(* manyUntil(symbol("!"), match("[^!]*")) on a source without "!".         *)
(***************************************************************************)
\* the calls the loop e made have all come back, with a value or a failure
CalleesCameBack(e) ==
  \A i \in 1..Len(Callees(e)) : ~IsAbrupt(Callees(e)[i].val)

\* the loops of the claim: manyUntil, which is also the tail loop of sepUntil
\* and sepUntil1 of part_003, and sepUntilTail, their tail loop in index.ts
UntilLoops == {"manyUntil", "sepUntilTail"}

C29_UntilTerminates ==
  \A n \in 1..Len(Trace) :
    (Trace[n].kind \in UntilLoops /\ CalleesCameBack(Trace[n])) =>
      Trace[n].val.t = "array" \/ IsErr(Trace[n].val)

(***************************************************************************)
(* C30: the cursor stays inside the source: at every point of a run, after *)
(* any sequence of calls of primitives and combinators, rollbacks of       *)
(* attempt and toError included, 0 <= context.offset <= source.length.     *)
(***************************************************************************)
Inside(offset) == 0 <= offset /\ offset <= Len(source)

\* the offsets recorded in a failure and in the failures it holds
RECURSIVE FailureOffsetsInside(_)
FailureOffsetsInside(val) ==
  /\ Inside(val.offset)
  /\ \A i \in 1..Len(val.scope) : Inside(val.scope[i].offset)
  /\ val.t = "OneOfErr" =>
       \A i \in 1..Len(val.errors) : FailureOffsetsInside(val.errors[i])

C30_CursorInside ==
  /\ Inside(context.offset)
  /\ \A i \in 1..Len(context.scope) : Inside(context.scope[i].offset)
  /\ \A n \in 1..Len(Trace) :
       LET e == Trace[n] IN
       /\ Inside(e.at)
       /\ Inside(e.out)
       /\ IsErr(e.val) => FailureOffsetsInside(e.val)

\* the run has reached the end of a source of three characters and has
\* then been rolled back by attempt
C30_Witness ==
  /\ Len(source) = 3
  /\ \E n, k \in 1..Len(Trace) :
       /\ Trace[n].kind = "attempt"
       /\ IsChild(Trace[k], Trace[n])
       /\ Trace[k].out = 3
       /\ Trace[n].out < 3
====
